---- MODULE Spec2Model ----
(***************************************************************************)
(* A model of the Libreria-Ecommerce backend (FastAPI + SQLModel).         *)
(*                                                                         *)
(* The state is the relational store: one sequence per table, a row's id   *)
(* being its position (autoincrement primary keys; rows of these tables    *)
(* are never physically removed by the handlers modelled here).  Every     *)
(* request handler is one action that carries the whole request: the       *)
(* dependencies FastAPI resolves first (get_current_user, require_admin),  *)
(* the body of the handler, and its commit.  The handlers that check       *)
(* uniqueness by a lookup followed by an insert (user registration) are    *)
(* split at their awaits so that two requests can interleave.              *)
(*                                                                         *)
(* Conventions:                                                            *)
(*   None       Python None / SQL NULL of a number, a datetime or an id    *)
(*              (the numbers the model draws are all >= 0)                 *)
(*   NoStr      Python None / SQL NULL of a string                         *)
(*   now        the wall clock (datetime.now()), advanced by Tick          *)
(*   resp       the response of the request that was served last           *)
(*   Decimal values are drawn as whole numbers; a result that went through *)
(*   the division by 100 of a percentage is carried multiplied by 100, so  *)
(*   that the exact Decimal arithmetic stays exact in the integers.        *)
(***************************************************************************)
EXTENDS Integers, Sequences, FiniteSets, TLC

VARIABLES
    now,              \* datetime.now()
    users,            \* table usuarios
    reg,              \* the requests in flight that run in steps, one per worker
    books,            \* table libros
    authors,          \* table autores
    categories,       \* table categorias
    publishers,       \* table editoriales
    book_authors,     \* table libro_autor
    book_categories,  \* table libro_categoria
    promotions,       \* table promociones
    coupons,          \* table cupones
    promotion_books,       \* table promocion_libros
    promotion_categories,  \* table promocion_categorias
    orders,           \* table pedidos
    order_details,    \* table detalle_pedidos
    reviews,          \* table resenas
    softDeleted,      \* history: the <<table, id>> a delete request succeeded on
    resp              \* the last response

userVars == <<users, reg>>
catalogVars == <<books, authors, categories, publishers, book_authors, book_categories>>
promoVars == <<promotions, coupons>>
commerceVars == <<promotion_books, promotion_categories, orders, order_details>>
vars == <<now, userVars, catalogVars, promoVars, commerceVars, reviews, softDeleted, resp>>

None == -1
NoStr == "<None>"

\* ---------------------------------------------------------------- bounds
MaxNow == 1
MaxCart == 2
MaxUsers == 2
MaxBooks == 2
MaxAuthors == 2
MaxCategories == 2
MaxPublishers == 2
MaxPromotions == 2
MaxCoupons == 2
MaxOrders == 2
MaxOrderDetails == 1
MaxRun == 9
MaxUses == 3
MaxReviews == 2

\* ------------------------------------------------------------- helpers
Ids(table) == 1..Len(table)

Min(a, b) == IF a <= b THEN a ELSE b

RECURSIVE SeqSum(_)
SeqSum(s) == IF s = << >> THEN 0 ELSE Head(s) + SeqSum(Tail(s))

\* All sequences over S of length at most n.
SeqsUpTo(S, n) == UNION {[1..k -> S] : k \in 0..n}

\* The tables of the orders, the promotion assignments and the reviews, empty.
EmptyCommerce ==
    /\ promotion_books = {} /\ promotion_categories = {}
    /\ orders = << >> /\ order_details = << >>
    /\ reviews = << >>

\* The first response of a behaviour: nothing was served yet.
NoResp == [op |-> "none", status |-> 0]

\* ------------------------------------------------------------- security
\* A bearer credential is what jwt.decode makes of it: its payload, or the
\* JWTError of a string that does not decode (forged, expired).
Token(uid, type) == [decodes |-> TRUE, sub |-> uid, type |-> type]
BadToken == [decodes |-> FALSE, sub |-> None, type |-> "access"]

\* Faulty variant, for sensitivity analysis: the type of the token is not looked at.
verify_token_AnyType(token, token_type) ==
    IF ~token.decodes THEN None ELSE token.sub

\* verify_token: the user id the token carries, or None for a 401.
verify_token(token, token_type) ==
    IF ~token.decodes THEN None
    ELSE IF token.type # token_type THEN None
    ELSE IF token.sub = None THEN None
    ELSE token.sub

\* get_current_user: the id of the authenticated user, or None (401).
get_current_user(cred) ==
    LET uid == verify_token(cred, "access") IN
    IF uid = None THEN None
    ELSE IF uid \notin Ids(users) THEN None
    ELSE IF ~users[uid].esta_activo THEN None
    ELSE uid

\* The users table after get_current_user ran: an accepted token updates the
\* user's fecha_ultima_actividad and commits, before the handler's body runs.
UsersAfterAuth(cred) ==
    LET uid == get_current_user(cred) IN
    IF uid = None THEN users
    ELSE [users EXCEPT ![uid].fecha_ultima_actividad = now]

\* Faulty variant, for sensitivity analysis: any authenticated user passes.
require_admin_AnyRole(cred) ==
    IF get_current_user(cred) = None THEN 401 ELSE 200

\* require_admin: 200 passes, 401 from get_current_user, 403 for a role that
\* is neither admin nor staff.
require_admin(cred) ==
    LET uid == get_current_user(cred) IN
    IF uid = None THEN 401
    ELSE IF users[uid].rol \notin {"admin", "staff"} THEN 403
    ELSE 200

\* A dependency on get_current_user alone.
require_user(cred) == IF get_current_user(cred) = None THEN 401 ELSE 200

\* ------------------------------------------------------------ promotions
\* select(Coupon, Promotion).join(Promotion).where(Coupon.codigo == code).first()
CouponByCode(code) ==
    LET hits == {i \in Ids(coupons) : coupons[i].codigo = code} IN
    IF hits = {} THEN None ELSE CHOOSE i \in hits : \A j \in hits : i <= j

\* Python truthiness of an Optional[int].
Truthy(v) == v # None /\ v # 0

\* The is_valid expression of calculate_discount, with Python's short-circuit
\* evaluation: "yes", "no", or "error" for the TypeError of comparing a NULL
\* promotion.fecha_inicio to now.
DiscountIsValid(c, p) ==
    IF ~c.es_activo THEN "no"
    ELSE IF ~p.es_activa THEN "no"
    ELSE IF ~(c.fecha_expiracion = None \/ c.fecha_expiracion >= now) THEN "no"
    ELSE IF ~(p.fecha_fin = None \/ p.fecha_fin >= now) THEN "no"
    ELSE IF p.fecha_inicio = None THEN "error"
    ELSE IF ~(p.fecha_inicio <= now) THEN "no"
    ELSE IF ~Truthy(c.limite_usos) \/ c.usos_actuales < c.limite_usos THEN "yes"
    ELSE "no"

\* item.get("quantity", 1), Decimal(str(item.get("price", 0)))
ItemQuantity(item) == IF item.quantity = None THEN 1 ELSE item.quantity
ItemPrice(item) == IF item.price = None THEN 0 ELSE item.price
CartTotal(cart) == SeqSum([i \in 1..Len(cart) |-> ItemPrice(cart[i]) * ItemQuantity(cart[i])])

\* discount_amount, multiplied by 100.
DiscountAmount100(p, total_items) ==
    IF p.tipo_descuento = "porcentaje" THEN total_items * p.valor
    ELSE IF p.tipo_descuento = "monto_fijo" THEN Min(p.valor, total_items) * 100
    ELSE 0

\* The body of calculate_discount: the response for a cart and a coupon code.
DiscountBody(cart, coupon_code) ==
    LET total_items == CartTotal(cart)
        cid == IF coupon_code = NoStr \/ coupon_code = "" THEN None
               ELSE CouponByCode(coupon_code)
        plain == [status |-> 200, subtotal |-> total_items, descuento100 |-> 0,
                  total_final100 |-> total_items * 100, promocion_aplicada |-> None]
    IN  IF cid = None THEN plain
        ELSE LET c == coupons[cid]
                 p == promotions[c.promocion_id]
                 valid == DiscountIsValid(c, p)
             IN  IF valid = "error"
                 THEN [status |-> 500, subtotal |-> total_items, descuento100 |-> 0,
                       total_final100 |-> 0, promocion_aplicada |-> None]
                 ELSE IF valid = "yes" /\ total_items >= p.monto_minimo_compra
                 THEN LET d == DiscountAmount100(p, total_items) IN
                      [status |-> 200, subtotal |-> total_items, descuento100 |-> d,
                       total_final100 |-> total_items * 100 - d,
                       promocion_aplicada |-> c.promocion_id]
                 ELSE plain

\* POST /promotions/calculate-discount
calculate_discount(cart, coupon_code, cred) ==
    /\ users' = UsersAfterAuth(cred)
    /\ resp' = [op |-> "calculate_discount", coupon_code |-> coupon_code] @@
               (IF require_user(cred) # 200
                THEN [status |-> 401]
                ELSE DiscountBody(cart, coupon_code))
    /\ UNCHANGED <<now, reviews, commerceVars, reg, catalogVars, promoVars, softDeleted>>

\* Faulty variant, for sensitivity analysis: a coupon that expires now is expired.
validate_coupon_ExpiresEarly(coupon_code, cred) ==
    LET cid == CouponByCode(coupon_code)
        c == coupons[cid]
        p == promotions[c.promocion_id]
        answer(status, valid, error) ==
            [op |-> "validate_coupon", coupon_code |-> coupon_code,
             status |-> status, valid |-> valid, error |-> error]
    IN
    /\ users' = UsersAfterAuth(cred)
    /\ resp' = IF require_user(cred) # 200 THEN answer(401, FALSE, "")
               ELSE IF cid = None THEN answer(404, FALSE, "Cupón no encontrado")
               ELSE IF ~c.es_activo THEN answer(200, FALSE, "Cupón inactivo")
               ELSE IF c.fecha_expiracion # None /\ c.fecha_expiracion <= now
               THEN answer(200, FALSE, "Cupón expirado")
               ELSE IF Truthy(c.limite_usos) /\ c.usos_actuales >= c.limite_usos
               THEN answer(200, FALSE, "Cupón agotado")
               ELSE IF ~p.es_activa THEN answer(200, FALSE, "Promoción inactiva")
               ELSE IF p.fecha_fin # None /\ p.fecha_fin < now
               THEN answer(200, FALSE, "Promoción expirada")
               ELSE IF p.fecha_inicio = None THEN answer(500, FALSE, "TypeError")
               ELSE IF p.fecha_inicio > now
               THEN answer(200, FALSE, "Promoción aún no vigente")
               ELSE answer(200, TRUE, "")
    /\ UNCHANGED <<now, reviews, commerceVars, reg, catalogVars, promoVars, softDeleted>>

\* GET /promotions/coupons/{coupon_code}/validate.  The checks run in the
\* order of the source, each returning as soon as it fails; comparing a NULL
\* fecha_inicio to now raises TypeError, which the handler answers with 500.
validate_coupon(coupon_code, cred) ==
    LET cid == CouponByCode(coupon_code)
        c == coupons[cid]
        p == promotions[c.promocion_id]
        answer(status, valid, error) ==
            [op |-> "validate_coupon", coupon_code |-> coupon_code,
             status |-> status, valid |-> valid, error |-> error]
    IN
    /\ users' = UsersAfterAuth(cred)
    /\ resp' = IF require_user(cred) # 200 THEN answer(401, FALSE, "")
               ELSE IF cid = None THEN answer(404, FALSE, "Cupón no encontrado")
               ELSE IF ~c.es_activo THEN answer(200, FALSE, "Cupón inactivo")
               ELSE IF c.fecha_expiracion # None /\ c.fecha_expiracion < now
               THEN answer(200, FALSE, "Cupón expirado")
               ELSE IF Truthy(c.limite_usos) /\ c.usos_actuales >= c.limite_usos
               THEN answer(200, FALSE, "Cupón agotado")
               ELSE IF ~p.es_activa THEN answer(200, FALSE, "Promoción inactiva")
               ELSE IF p.fecha_fin # None /\ p.fecha_fin < now
               THEN answer(200, FALSE, "Promoción expirada")
               ELSE IF p.fecha_inicio = None THEN answer(500, FALSE, "TypeError")
               ELSE IF p.fecha_inicio > now
               THEN answer(200, FALSE, "Promoción aún no vigente")
               ELSE answer(200, TRUE, "")
    /\ UNCHANGED <<now, reviews, commerceVars, reg, catalogVars, promoVars, softDeleted>>

\* The clock.
Tick ==
    /\ now < MaxNow
    /\ now' = now + 1
    /\ UNCHANGED <<userVars, catalogVars, promoVars, commerceVars, reviews, softDeleted, resp>>

\* ------------------------------------------------------------------ rows
\* A row of usuarios (the columns the handlers read or write; nombre stands
\* for the profile columns update_user may set).
UserRow(nombre, email, tipo, numero, rol) ==
    [nombre |-> nombre, email |-> email, tipo_documento |-> tipo,
     numero_documento |-> numero, rol |-> rol, esta_activo |-> TRUE,
     fecha_ultima_actividad |-> None]

\* Accounts provisioned in the database before the API is used: the API itself
\* only ever creates users of role cliente.
SeedAdmin ==
    UserRow("root", "admin@x", "DNI", <<"1", "1", "1", "1", "1", "1", "1", "1">>, "admin")
SeedCliente ==
    UserRow("ana", "ana@x", "DNI", <<"2", "2", "2", "2", "2", "2", "2", "2">>, "cliente")

\* ----------------------------------------------------------------- users
\* Strings the code takes apart are sequences of one-character strings.
Digits == {"0", "1", "2", "3", "4", "5", "6", "7", "8", "9"}

\* numero.replace("-", "").replace(" ", "")
CleanNumero(numero) == SelectSeq(numero, LAMBDA ch : ch \notin {"-", " "})

\* str.isdigit(): non-empty and all digits.
IsDigit(s) == Len(s) > 0 /\ \A i \in 1..Len(s) : s[i] \in Digits

\* str.startswith(prefixes)
StartsWith(s, prefixes) ==
    \E pre \in prefixes : Len(s) >= Len(pre) /\ SubSeq(s, 1, Len(pre)) = pre

\* Faulty variant, for sensitivity analysis: the number is not cleaned of its
\* separators.
validate_documento_peruano_NoClean(tipo, numero) ==
    LET n == numero IN
    IF tipo = "DNI" THEN Len(n) = 8 /\ IsDigit(n)
    ELSE IF tipo = "RUC"
    THEN IF Len(n) # 11 \/ ~IsDigit(n) THEN FALSE
         ELSE StartsWith(n, {<<"1", "0">>, <<"1", "5">>, <<"1", "7">>, <<"2", "0">>})
    ELSE IF tipo = "CE" THEN Len(n) = 9 /\ IsDigit(n)
    ELSE FALSE

validate_documento_peruano(tipo, numero) ==
    LET n == CleanNumero(numero) IN
    IF tipo = "DNI" THEN Len(n) = 8 /\ IsDigit(n)
    ELSE IF tipo = "RUC"
    THEN IF Len(n) # 11 \/ ~IsDigit(n) THEN FALSE
         ELSE StartsWith(n, {<<"1", "0">>, <<"1", "5">>, <<"1", "7">>, <<"2", "0">>})
    ELSE IF tipo = "CE" THEN Len(n) = 9 /\ IsDigit(n)
    ELSE FALSE

\* date.today() of the run, and calculate_age for a date of birth.
Today == [year |-> 2026, month |-> 6, day |-> 15]
calculate_age(fn) ==
    Today.year - fn.year
      - (IF Today.month < fn.month \/ (Today.month = fn.month /\ Today.day < fn.day)
         THEN 1 ELSE 0)

\* A date of birth that was not sent.
NoDate == [year |-> None, month |-> None, day |-> None]

\* Faulty variant, for sensitivity analysis: the lookup restricted to active users.
UserByEmail_ActiveOnly(email) ==
    LET hits == {i \in Ids(users) : users[i].email = email /\ users[i].esta_activo} IN
    IF hits = {} THEN None ELSE CHOOSE i \in hits : TRUE

\* select(User).where(User.email == email).scalar_one_or_none(): the id of
\* the row, or None.  The query does not look at esta_activo.
UserByEmail(email) ==
    LET hits == {i \in Ids(users) : users[i].email = email} IN
    IF hits = {} THEN None ELSE CHOOSE i \in hits : TRUE

\* select(User).where(User.numero_documento == numero).scalar_one_or_none()
UserByDocumento(numero) ==
    LET hits == {i \in Ids(users) : users[i].numero_documento = numero} IN
    IF hits = {} THEN None ELSE CHOOSE i \in hits : TRUE

\* Faulty variant, for sensitivity analysis: the email column without its unique index.
UserUniqueViolation_NoEmailIndex(row) ==
    IF \E i \in Ids(users) : users[i].numero_documento = row.numero_documento
    THEN "unique_documento" ELSE ""

\* The unique indexes of usuarios (email, numero_documento): the index that
\* makes the INSERT of row raise IntegrityError at commit, or "".
UserUniqueViolation(row) ==
    IF \E i \in Ids(users) : users[i].email = row.email THEN "unique_email"
    ELSE IF \E i \in Ids(users) : users[i].numero_documento = row.numero_documento
    THEN "unique_documento"
    ELSE ""

\* The workers that serve requests concurrently, and the three handlers that
\* register a user: POST /users/ (create_user), POST /users/register
\* (register_user) and POST /auth/register (register).
Workers == {"w1", "w2"}
RegOps == {"create_user", "register_user", "register"}

NoData ==
    [nombre |-> "", email |-> "", tipo_documento |-> "", numero_documento |-> << >>,
     fecha_nacimiento |-> NoDate]
IdleReq == [pc |-> "idle", op |-> "", data |-> NoData]

\* A handler is called and runs up to its first query: the email lookup.
RegStart(w, op, data) ==
    /\ reg[w].pc = "idle"
    /\ LET found == UserByEmail(data.email) IN
       IF found # None
       THEN /\ reg' = reg
            /\ resp' = [op |-> op, status |-> 400, detail |-> "email", row |-> found]
       ELSE /\ reg' = [reg EXCEPT ![w] = [pc |-> "documento", op |-> op, data |-> data]]
            /\ resp' = resp
    /\ UNCHANGED <<now, reviews, commerceVars, users, catalogVars, promoVars, softDeleted>>

\* The second query, the document lookup, and what follows it up to the
\* commit: create_user and register_user validate the format of the document
\* and the age; auth.register does neither.
RegLookupDocumento(w) ==
    /\ reg[w].pc = "documento"
    /\ LET r == reg[w]
           found == UserByDocumento(r.data.numero_documento)
           reject(detail, row) ==
               /\ reg' = [reg EXCEPT ![w] = IdleReq]
               /\ resp' = [op |-> r.op, status |-> 400, detail |-> detail, row |-> row]
       IN  IF found # None THEN reject("documento", found)
           ELSE IF r.op = "register"
           THEN reg' = [reg EXCEPT ![w].pc = "commit"] /\ resp' = resp
           ELSE IF ~validate_documento_peruano(r.data.tipo_documento, r.data.numero_documento)
           THEN reject("formato", None)
           ELSE IF r.data.fecha_nacimiento # NoDate /\ calculate_age(r.data.fecha_nacimiento) < 13
           THEN reject("edad", None)
           ELSE reg' = [reg EXCEPT ![w].pc = "commit"] /\ resp' = resp
    /\ UNCHANGED <<now, reviews, commerceVars, users, catalogVars, promoVars, softDeleted>>

\* session.add(user); await session.commit(): the row is inserted unless a
\* unique index rejects it (IntegrityError: rollback, 500).  The role is
\* cliente: UserCreate and UserRegister carry no rol, the two register
\* handlers force it.
RegCommit(w) ==
    /\ reg[w].pc = "commit"
    /\ Len(users) < MaxUsers
    /\ LET r == reg[w]
           row == UserRow(r.data.nombre, r.data.email, r.data.tipo_documento,
                          r.data.numero_documento, "cliente")
       IN  IF UserUniqueViolation(row) # ""
           THEN /\ users' = users
                /\ resp' = [op |-> r.op, status |-> 500, detail |-> UserUniqueViolation(row),
                            row |-> None]
           ELSE /\ users' = Append(users, row)
                /\ resp' = [op |-> r.op, status |-> 200, detail |-> "", row |-> Len(users) + 1]
    /\ reg' = [reg EXCEPT ![w] = IdleReq]
    /\ UNCHANGED <<now, reviews, commerceVars, catalogVars, promoVars, softDeleted>>

\* ------------------------------------------------------------- responses
\* An error response (HTTPException), or the message a delete answers with.
Resp(op, status, id) == [op |-> op, status |-> status, id |-> id]

\* A 200 response carrying one row (response_model=...Read).
RowResp(op, id, row) == [op |-> op, status |-> 200, id |-> id, row |-> row]

\* A 200 response carrying the ids of the rows a listing selected.
ListResp(op, active_only, skip, limit, rows) ==
    [op |-> op, status |-> 200, active_only |-> active_only, skip |-> skip,
     limit |-> limit, rows |-> rows]

\* The default of the limit query parameter of every listing.
DefaultLimit == 100

Range(s) == {s[i] : i \in DOMAIN s}

\* The elements of S as a sequence ascending in key (ORDER BY); key maps each
\* element to the pair <<sort column, primary key>>.
Ordered(S, key) ==
    CHOOSE s \in [1..Cardinality(S) -> S] :
        /\ Range(s) = S
        /\ \A i, j \in DOMAIN s :
               i < j => \/ key[s[i]][1] < key[s[j]][1]
                        \/ key[s[i]][1] = key[s[j]][1] /\ key[s[i]][2] < key[s[j]][2]

\* The ids of table's rows that are in hits (the rows the WHERE clause keeps),
\* in primary-key order.
SelectIds(table, hits) ==
    SelectSeq([i \in 1..Len(table) |-> i], LAMBDA i : i \in hits)

\* query.offset(skip).limit(limit)
Page(rows, skip, limit) == SubSeq(rows, skip + 1, Min(Len(rows), skip + limit))

\* setattr(row, field, value) for every field of update_data, the dict of the
\* fields the PATCH body set (dict(exclude_unset=True)).
ApplyUpdate(row, update_data) ==
    [f \in DOMAIN row |-> IF f \in DOMAIN update_data THEN update_data[f] ELSE row[f]]

\* ------------------------------------------------------------ books.py
\* A row of libros (the columns the handlers modelled here read or write;
\* titulo stands for the columns update_book may set).  BookCreate gives stock
\* the default 0 and puts no bound on it; Book(**dict()) does not validate.
BookRow(book_data) ==
    [titulo |-> book_data.titulo, isbn |-> book_data.isbn, esta_activo |-> TRUE,
     stock |-> IF "stock" \in DOMAIN book_data THEN book_data.stock ELSE 0]

\* The unique index of libros.isbn (NULLs never collide): whether the INSERT
\* of a row with this isbn raises IntegrityError at commit.
BookUniqueViolation(isbn) ==
    isbn # NoStr /\ \E i \in Ids(books) : books[i].isbn = isbn

\* The routes of the books router, in the order the decorators register them.
\* A path is the sequence of its segments, "{}" being a path parameter.
BooksRouter ==
    << [method |-> "GET",    path |-> << >>,                 endpoint |-> "get_books"],
       [method |-> "GET",    path |-> <<"{}">>,              endpoint |-> "get_book"],
       [method |-> "POST",   path |-> << >>,                 endpoint |-> "create_book"],
       [method |-> "PATCH",  path |-> <<"{}">>,              endpoint |-> "update_book"],
       [method |-> "DELETE", path |-> <<"{}">>,              endpoint |-> "delete_book"],
       [method |-> "GET",    path |-> << >>,                 endpoint |-> "get_books_filtered"],
       [method |-> "GET",    path |-> <<"{}", "authors">>,    endpoint |-> "get_book_authors"],
       [method |-> "GET",    path |-> <<"{}", "categories">>, endpoint |-> "get_book_categories"],
       [method |-> "PATCH",  path |-> <<"{}", "stock">>,      endpoint |-> "update_stock"],
       [method |-> "PATCH",  path |-> <<"bulk-update-stock">>, endpoint |-> "bulk_update_stock"] >>

\* Whether a request path matches a route's path: segment by segment, a path
\* parameter matching any segment.
PathMatches(template, path) ==
    /\ Len(template) = Len(path)
    /\ \A i \in 1..Len(path) : template[i] = "{}" \/ template[i] = path[i]

\* Starlette's routing: the first registered route that matches serves the
\* request.
Dispatch(router, method, path) ==
    LET hits == {i \in DOMAIN router :
                    router[i].method = method /\ PathMatches(router[i].path, path)}
    IN  IF hits = {} THEN "" ELSE router[CHOOSE i \in hits : \A j \in hits : i <= j].endpoint

\* The first get_books: select(Book), every row.
get_books == SelectIds(books, Ids(books))

\* The second get_books (the listing with filters), its filters other than
\* active_only left at their defaults.
get_books_filtered(active_only, skip, limit) ==
    Page(SelectIds(books, {i \in Ids(books) : active_only => books[i].esta_activo}), skip, limit)

\* GET /books/?active_only=&skip=&limit=
ListBooks(active_only, skip, limit) ==
    /\ resp' = ListResp("GET /books/", active_only, skip, limit,
                        IF Dispatch(BooksRouter, "GET", << >>) = "get_books"
                        THEN get_books
                        ELSE get_books_filtered(active_only, skip, limit))
    /\ UNCHANGED <<now, reviews, commerceVars, userVars, catalogVars, promoVars, softDeleted>>

\* GET /books/{book_id}
get_book(book_id) ==
    /\ resp' = IF book_id \notin Ids(books) THEN Resp("get_book", 404, book_id)
               ELSE RowResp("get_book", book_id, books[book_id])
    /\ UNCHANGED <<now, reviews, commerceVars, userVars, catalogVars, promoVars, softDeleted>>

\* POST /books/
create_book(book_data) ==
    /\ BookUniqueViolation(book_data.isbn) \/ Len(books) < MaxBooks
    /\ IF BookUniqueViolation(book_data.isbn)
       THEN /\ books' = books
            /\ resp' = Resp("create_book", 500, None)
       ELSE /\ books' = Append(books, BookRow(book_data))
            /\ resp' = RowResp("create_book", Len(books) + 1, BookRow(book_data))
    /\ UNCHANGED <<now, reviews, commerceVars, userVars, authors, categories, publishers, book_authors,
                   book_categories, promoVars, softDeleted>>

\* PATCH /books/{book_id}
update_book(book_id, book_data) ==
    /\ IF book_id \notin Ids(books)
       THEN /\ books' = books
            /\ resp' = Resp("update_book", 404, book_id)
       ELSE /\ books' = [books EXCEPT ![book_id] = ApplyUpdate(@, book_data)]
            /\ resp' = RowResp("update_book", book_id, books'[book_id])
    /\ UNCHANGED <<now, reviews, commerceVars, userVars, authors, categories, publishers, book_authors,
                   book_categories, promoVars, softDeleted>>

\* DELETE /books/{book_id}
delete_book(book_id) ==
    /\ IF book_id \notin Ids(books)
       THEN /\ books' = books
            /\ softDeleted' = softDeleted
            /\ resp' = Resp("delete_book", 404, book_id)
       ELSE /\ books' = [books EXCEPT ![book_id].esta_activo = FALSE]
            /\ softDeleted' = softDeleted \cup {<<"books", book_id>>}
            /\ resp' = Resp("delete_book", 200, book_id)
    /\ UNCHANGED <<now, reviews, commerceVars, userVars, authors, categories, publishers, book_authors,
                   book_categories, promoVars>>

\* GET /books/{book_id}/authors: the join of autores and libro_autor on the
\* book, ordered by orden; no lookup of the book itself.
get_book_authors(book_id) ==
    /\ LET links == {ba \in book_authors : ba.libro_id = book_id}
           sorted == Ordered(links, [ba \in links |-> <<ba.orden, ba.autor_id>>])
       IN  resp' = [op |-> "get_book_authors", status |-> 200, id |-> book_id,
                    rows |-> [i \in DOMAIN sorted |-> sorted[i].autor_id]]
    /\ UNCHANGED <<now, reviews, commerceVars, userVars, catalogVars, promoVars, softDeleted>>

\* GET /books/{book_id}/categories: the join of categorias and
\* libro_categoria on the book; no lookup of the book itself.
get_book_categories(book_id) ==
    /\ LET links == {bc \in book_categories : bc.libro_id = book_id}
           sorted == Ordered(links, [bc \in links |-> <<bc.categoria_id, 0>>])
       IN  resp' = [op |-> "get_book_categories", status |-> 200, id |-> book_id,
                    rows |-> [i \in DOMAIN sorted |-> sorted[i].categoria_id]]
    /\ UNCHANGED <<now, reviews, commerceVars, userVars, catalogVars, promoVars, softDeleted>>

\* ---------------------------------------------------------- authors.py
\* A row of autores.
AuthorRow(author_data) ==
    [nombre_completo |-> author_data.nombre_completo, esta_activo |-> TRUE]

\* GET /authors/?active_only=&skip=&limit=
get_authors(active_only, skip, limit) ==
    /\ resp' = ListResp("get_authors", active_only, skip, limit,
                        Page(SelectIds(authors, {i \in Ids(authors) : active_only => authors[i].esta_activo}),
                             skip, limit))
    /\ UNCHANGED <<now, reviews, commerceVars, userVars, catalogVars, promoVars, softDeleted>>

\* GET /authors/{author_id}
get_author(author_id) ==
    /\ resp' = IF author_id \notin Ids(authors) THEN Resp("get_author", 404, author_id)
               ELSE RowResp("get_author", author_id, authors[author_id])
    /\ UNCHANGED <<now, reviews, commerceVars, userVars, catalogVars, promoVars, softDeleted>>

\* POST /authors/
create_author(author_data) ==
    /\ Len(authors) < MaxAuthors
    /\ authors' = Append(authors, AuthorRow(author_data))
    /\ resp' = RowResp("create_author", Len(authors) + 1, AuthorRow(author_data))
    /\ UNCHANGED <<now, reviews, commerceVars, userVars, books, categories, publishers, book_authors,
                   book_categories, promoVars, softDeleted>>

\* PATCH /authors/{author_id}
update_author(author_id, author_data) ==
    /\ IF author_id \notin Ids(authors)
       THEN /\ authors' = authors
            /\ resp' = Resp("update_author", 404, author_id)
       ELSE /\ authors' = [authors EXCEPT ![author_id] = ApplyUpdate(@, author_data)]
            /\ resp' = RowResp("update_author", author_id, authors'[author_id])
    /\ UNCHANGED <<now, reviews, commerceVars, userVars, books, categories, publishers, book_authors,
                   book_categories, promoVars, softDeleted>>

\* DELETE /authors/{author_id}
delete_author(author_id) ==
    /\ IF author_id \notin Ids(authors)
       THEN /\ authors' = authors
            /\ softDeleted' = softDeleted
            /\ resp' = Resp("delete_author", 404, author_id)
       ELSE /\ authors' = [authors EXCEPT ![author_id].esta_activo = FALSE]
            /\ softDeleted' = softDeleted \cup {<<"authors", author_id>>}
            /\ resp' = Resp("delete_author", 200, author_id)
    /\ UNCHANGED <<now, reviews, commerceVars, userVars, books, categories, publishers, book_authors,
                   book_categories, promoVars>>

\* ------------------------------------------------------- categories.py
\* A row of categorias.
CategoryRow(category_data) ==
    [nombre |-> category_data.nombre,
     categoria_padre_id |-> category_data.categoria_padre_id,
     orden_display |-> category_data.orden_display,
     esta_activa |-> TRUE]

\* Faulty variant, for sensitivity analysis: the lookup of update_category without Category.id != category_id.
CategoryNameTaken_AnyId(nombre, except) ==
    \E i \in Ids(categories) : categories[i].nombre = nombre

\* select(Category).where(Category.nombre == nombre [, Category.id != except]):
\* whether a row matches.  except is None in create_category.
CategoryNameTaken(nombre, except) ==
    \E i \in Ids(categories) : categories[i].nombre = nombre /\ i # except

\* GET /categories/?active_only=&skip=&limit= (parent_id left unset), ordered
\* by orden_display; rows of equal orden_display are taken in id order.
get_categories(active_only, skip, limit) ==
    /\ LET hits == {i \in Ids(categories) : active_only => categories[i].esta_activa}
           ByOrden == [i \in hits |-> <<categories[i].orden_display, i>>]
       IN  resp' = ListResp("get_categories", active_only, skip, limit,
                            Page(Ordered(hits, ByOrden), skip, limit))
    /\ UNCHANGED <<now, reviews, commerceVars, userVars, catalogVars, promoVars, softDeleted>>

\* GET /categories/{category_id}
get_category(category_id) ==
    /\ resp' = IF category_id \notin Ids(categories)
               THEN Resp("get_category", 404, category_id)
               ELSE RowResp("get_category", category_id, categories[category_id])
    /\ UNCHANGED <<now, reviews, commerceVars, userVars, catalogVars, promoVars, softDeleted>>

\* POST /categories/
create_category(category_data) ==
    /\ \/ CategoryNameTaken(category_data.nombre, None)
       \/ Len(categories) < MaxCategories
    /\ IF CategoryNameTaken(category_data.nombre, None)
       THEN /\ categories' = categories
            /\ resp' = Resp("create_category", 400, None)
       ELSE IF /\ Truthy(category_data.categoria_padre_id)
               /\ category_data.categoria_padre_id \notin Ids(categories)
       THEN /\ categories' = categories
            /\ resp' = Resp("create_category", 400, category_data.categoria_padre_id)
       ELSE /\ categories' = Append(categories, CategoryRow(category_data))
            /\ resp' = RowResp("create_category", Len(categories) + 1,
                               CategoryRow(category_data))
    /\ UNCHANGED <<now, reviews, commerceVars, userVars, books, authors, publishers, book_authors,
                   book_categories, promoVars, softDeleted>>

\* PATCH /categories/{category_id}.  A nombre set to null passes the lookup
\* and fails the NOT NULL column at commit.
update_category(category_id, update_data) ==
    /\ IF category_id \notin Ids(categories)
       THEN /\ categories' = categories
            /\ resp' = Resp("update_category", 404, category_id)
       ELSE IF /\ "nombre" \in DOMAIN update_data
               /\ CategoryNameTaken(update_data.nombre, category_id)
       THEN /\ categories' = categories
            /\ resp' = Resp("update_category", 400, category_id)
       ELSE IF "nombre" \in DOMAIN update_data /\ update_data.nombre = NoStr
       THEN /\ categories' = categories
            /\ resp' = Resp("update_category", 500, category_id)
       ELSE /\ categories' = [categories EXCEPT
                                ![category_id] = ApplyUpdate(@, update_data)]
            /\ resp' = RowResp("update_category", category_id, categories'[category_id])
    /\ UNCHANGED <<now, reviews, commerceVars, userVars, books, authors, publishers, book_authors,
                   book_categories, promoVars, softDeleted>>

\* DELETE /categories/{category_id}
delete_category(category_id) ==
    /\ IF category_id \notin Ids(categories)
       THEN /\ categories' = categories
            /\ softDeleted' = softDeleted
            /\ resp' = Resp("delete_category", 404, category_id)
       ELSE /\ categories' = [categories EXCEPT ![category_id].esta_activa = FALSE]
            /\ softDeleted' = softDeleted \cup {<<"categories", category_id>>}
            /\ resp' = Resp("delete_category", 200, category_id)
    /\ UNCHANGED <<now, reviews, commerceVars, userVars, books, authors, publishers, book_authors,
                   book_categories, promoVars>>

\* ------------------------------------------------------- publishers.py
\* A row of editoriales.
PublisherRow(publisher_data) ==
    [nombre |-> publisher_data.nombre, esta_activa |-> TRUE]

\* select(Publisher).where(Publisher.nombre == nombre [, Publisher.id != except]):
\* whether a row matches.  except is None in create_publisher.
PublisherNameTaken(nombre, except) ==
    \E i \in Ids(publishers) : publishers[i].nombre = nombre /\ i # except

\* GET /publishers/?active_only=&skip=&limit=
get_publishers(active_only, skip, limit) ==
    /\ resp' = ListResp("get_publishers", active_only, skip, limit,
                        Page(SelectIds(publishers,
                                       {i \in Ids(publishers) : active_only => publishers[i].esta_activa}),
                             skip, limit))
    /\ UNCHANGED <<now, reviews, commerceVars, userVars, catalogVars, promoVars, softDeleted>>

\* GET /publishers/{publisher_id}
get_publisher(publisher_id) ==
    /\ resp' = IF publisher_id \notin Ids(publishers)
               THEN Resp("get_publisher", 404, publisher_id)
               ELSE RowResp("get_publisher", publisher_id, publishers[publisher_id])
    /\ UNCHANGED <<now, reviews, commerceVars, userVars, catalogVars, promoVars, softDeleted>>

\* POST /publishers/
create_publisher(publisher_data) ==
    /\ \/ PublisherNameTaken(publisher_data.nombre, None)
       \/ Len(publishers) < MaxPublishers
    /\ IF PublisherNameTaken(publisher_data.nombre, None)
       THEN /\ publishers' = publishers
            /\ resp' = Resp("create_publisher", 400, None)
       ELSE /\ publishers' = Append(publishers, PublisherRow(publisher_data))
            /\ resp' = RowResp("create_publisher", Len(publishers) + 1,
                               PublisherRow(publisher_data))
    /\ UNCHANGED <<now, reviews, commerceVars, userVars, books, authors, categories, book_authors,
                   book_categories, promoVars, softDeleted>>

\* PATCH /publishers/{publisher_id}.  A nombre set to null passes the lookup
\* and fails the NOT NULL column at commit.
update_publisher(publisher_id, update_data) ==
    /\ IF publisher_id \notin Ids(publishers)
       THEN /\ publishers' = publishers
            /\ resp' = Resp("update_publisher", 404, publisher_id)
       ELSE IF /\ "nombre" \in DOMAIN update_data
               /\ PublisherNameTaken(update_data.nombre, publisher_id)
       THEN /\ publishers' = publishers
            /\ resp' = Resp("update_publisher", 400, publisher_id)
       ELSE IF "nombre" \in DOMAIN update_data /\ update_data.nombre = NoStr
       THEN /\ publishers' = publishers
            /\ resp' = Resp("update_publisher", 500, publisher_id)
       ELSE /\ publishers' = [publishers EXCEPT
                                ![publisher_id] = ApplyUpdate(@, update_data)]
            /\ resp' = RowResp("update_publisher", publisher_id, publishers'[publisher_id])
    /\ UNCHANGED <<now, reviews, commerceVars, userVars, books, authors, categories, book_authors,
                   book_categories, promoVars, softDeleted>>

\* DELETE /publishers/{publisher_id}
delete_publisher(publisher_id) ==
    /\ IF publisher_id \notin Ids(publishers)
       THEN /\ publishers' = publishers
            /\ softDeleted' = softDeleted
            /\ resp' = Resp("delete_publisher", 404, publisher_id)
       ELSE /\ publishers' = [publishers EXCEPT ![publisher_id].esta_activa = FALSE]
            /\ softDeleted' = softDeleted \cup {<<"publishers", publisher_id>>}
            /\ resp' = Resp("delete_publisher", 200, publisher_id)
    /\ UNCHANGED <<now, reviews, commerceVars, userVars, books, authors, categories, book_authors,
                   book_categories, promoVars>>

\* ------------------------------------------------------ users.py: CRUD
\* GET /users/?active_only=&skip=&limit=
get_users(active_only, skip, limit) ==
    /\ resp' = ListResp("get_users", active_only, skip, limit,
                        Page(SelectIds(users, {i \in Ids(users) : active_only => users[i].esta_activo}),
                             skip, limit))
    /\ UNCHANGED <<now, reviews, commerceVars, userVars, catalogVars, promoVars, softDeleted>>

\* GET /users/{user_id}
get_user(user_id) ==
    /\ resp' = IF user_id \notin Ids(users) THEN Resp("get_user", 404, user_id)
               ELSE RowResp("get_user", user_id, users[user_id])
    /\ UNCHANGED <<now, reviews, commerceVars, userVars, catalogVars, promoVars, softDeleted>>

\* DELETE /users/{user_id}
delete_user(user_id) ==
    /\ IF user_id \notin Ids(users)
       THEN /\ users' = users
            /\ softDeleted' = softDeleted
            /\ resp' = Resp("delete_user", 404, user_id)
       ELSE /\ users' = [users EXCEPT ![user_id].esta_activo = FALSE]
            /\ softDeleted' = softDeleted \cup {<<"users", user_id>>}
            /\ resp' = Resp("delete_user", 200, user_id)
    /\ UNCHANGED <<now, reviews, commerceVars, reg, catalogVars, promoVars>>

\* --------------------------------------------- promotions.py: CRUD
\* A row of promociones, as create_promotion stores it: Promotion(**dict())
\* passes every field of the body, a fecha_inicio of None included.
PromotionRow(promotion_data) ==
    [nombre |-> promotion_data.nombre,
     tipo_descuento |-> promotion_data.tipo_descuento,
     valor |-> promotion_data.valor,
     monto_minimo_compra |-> promotion_data.monto_minimo_compra,
     fecha_inicio |-> promotion_data.fecha_inicio,
     fecha_fin |-> promotion_data.fecha_fin,
     es_activa |-> TRUE]

\* Faulty variant, for sensitivity analysis: the WHERE clause without Promotion.es_activa == True.
PromotionIsCurrent_DatesOnly(p) ==
    /\ p.fecha_fin = None \/ p.fecha_fin >= now
    /\ p.fecha_inicio # None /\ p.fecha_inicio <= now

\* The WHERE clause of get_promotions under active_only; a NULL fecha_inicio
\* selects nothing.
PromotionIsCurrent(p) ==
    /\ p.es_activa
    /\ p.fecha_fin = None \/ p.fecha_fin >= now
    /\ p.fecha_inicio # None /\ p.fecha_inicio <= now

\* GET /promotions/?active_only=&skip=&limit=
get_promotions(active_only, skip, limit) ==
    /\ resp' = ListResp("get_promotions", active_only, skip, limit,
                        Page(SelectIds(promotions,
                                       {i \in Ids(promotions) : active_only => PromotionIsCurrent(promotions[i])}),
                             skip, limit))
    /\ UNCHANGED <<now, reviews, commerceVars, userVars, catalogVars, promoVars, softDeleted>>

\* GET /promotions/{promotion_id}
get_promotion(promotion_id) ==
    /\ resp' = IF promotion_id \notin Ids(promotions)
               THEN Resp("get_promotion", 404, promotion_id)
               ELSE RowResp("get_promotion", promotion_id, promotions[promotion_id])
    /\ UNCHANGED <<now, reviews, commerceVars, userVars, catalogVars, promoVars, softDeleted>>

\* POST /promotions/
create_promotion(promotion_data, cred) ==
    /\ users' = UsersAfterAuth(cred)
    /\ IF require_admin(cred) # 200
       THEN /\ promotions' = promotions
            /\ resp' = Resp("create_promotion", require_admin(cred), None)
       ELSE /\ Len(promotions) < MaxPromotions
            /\ promotions' = Append(promotions, PromotionRow(promotion_data))
            /\ resp' = RowResp("create_promotion", Len(promotions) + 1,
                               PromotionRow(promotion_data))
    /\ UNCHANGED <<now, reviews, commerceVars, reg, catalogVars, coupons, softDeleted>>

\* PATCH /promotions/{promotion_id}
update_promotion(promotion_id, update_data, cred) ==
    /\ users' = UsersAfterAuth(cred)
    /\ IF require_admin(cred) # 200
       THEN /\ promotions' = promotions
            /\ resp' = Resp("update_promotion", require_admin(cred), promotion_id)
       ELSE IF promotion_id \notin Ids(promotions)
       THEN /\ promotions' = promotions
            /\ resp' = Resp("update_promotion", 404, promotion_id)
       ELSE /\ promotions' = [promotions EXCEPT
                                ![promotion_id] = ApplyUpdate(@, update_data)]
            /\ resp' = RowResp("update_promotion", promotion_id, promotions'[promotion_id])
    /\ UNCHANGED <<now, reviews, commerceVars, reg, catalogVars, coupons, softDeleted>>

\* Faulty variant, for sensitivity analysis: a deactivation that also ends the promotion.
deactivate_promotion_Expire(promotion_id, cred) ==
    /\ users' = UsersAfterAuth(cred)
    /\ IF require_admin(cred) # 200
       THEN /\ promotions' = promotions
            /\ softDeleted' = softDeleted
            /\ resp' = Resp("deactivate_promotion", require_admin(cred), promotion_id)
       ELSE IF promotion_id \notin Ids(promotions)
       THEN /\ promotions' = promotions
            /\ softDeleted' = softDeleted
            /\ resp' = Resp("deactivate_promotion", 404, promotion_id)
       ELSE /\ promotions' = [promotions EXCEPT ![promotion_id].es_activa = FALSE,
                                                ![promotion_id].fecha_fin = now]
            /\ softDeleted' = softDeleted \cup {<<"promotions", promotion_id>>}
            /\ resp' = Resp("deactivate_promotion", 200, promotion_id)
    /\ UNCHANGED <<now, reviews, commerceVars, reg, catalogVars, coupons>>

\* DELETE /promotions/{promotion_id}
deactivate_promotion(promotion_id, cred) ==
    /\ users' = UsersAfterAuth(cred)
    /\ IF require_admin(cred) # 200
       THEN /\ promotions' = promotions
            /\ softDeleted' = softDeleted
            /\ resp' = Resp("deactivate_promotion", require_admin(cred), promotion_id)
       ELSE IF promotion_id \notin Ids(promotions)
       THEN /\ promotions' = promotions
            /\ softDeleted' = softDeleted
            /\ resp' = Resp("deactivate_promotion", 404, promotion_id)
       ELSE /\ promotions' = [promotions EXCEPT ![promotion_id].es_activa = FALSE]
            /\ softDeleted' = softDeleted \cup {<<"promotions", promotion_id>>}
            /\ resp' = Resp("deactivate_promotion", 200, promotion_id)
    /\ UNCHANGED <<now, reviews, commerceVars, reg, catalogVars, coupons>>

\* A row of cupones.
CouponRow(coupon_data) ==
    [codigo |-> coupon_data.codigo, promocion_id |-> coupon_data.promocion_id,
     fecha_expiracion |-> coupon_data.fecha_expiracion,
     limite_usos |-> coupon_data.limite_usos, usos_actuales |-> 0, es_activo |-> TRUE]

\* Faulty variant, for sensitivity analysis: create_coupon without its lookup.
CouponCodeTaken_NoLookup(codigo) == FALSE

\* select(Coupon).where(Coupon.codigo == codigo).scalar_one_or_none(): whether
\* a row matches.
CouponCodeTaken(codigo) == \E i \in Ids(coupons) : coupons[i].codigo = codigo

\* The unique index of cupones.codigo: whether the INSERT of a row with this
\* codigo raises IntegrityError at commit.
CouponUniqueViolation(codigo) == \E i \in Ids(coupons) : coupons[i].codigo = codigo

\* POST /promotions/coupons/
create_coupon(coupon_data, cred) ==
    /\ users' = UsersAfterAuth(cred)
    /\ IF require_admin(cred) # 200
       THEN /\ coupons' = coupons
            /\ resp' = Resp("create_coupon", require_admin(cred), None)
       ELSE IF CouponCodeTaken(coupon_data.codigo)
       THEN /\ coupons' = coupons
            /\ resp' = Resp("create_coupon", 400, None)
       ELSE IF coupon_data.promocion_id \notin Ids(promotions)
       THEN /\ coupons' = coupons
            /\ resp' = Resp("create_coupon", 404, coupon_data.promocion_id)
       ELSE IF CouponUniqueViolation(coupon_data.codigo)
       THEN /\ coupons' = coupons
            /\ resp' = Resp("create_coupon", 500, None)
       ELSE /\ Len(coupons) < MaxCoupons
            /\ coupons' = Append(coupons, CouponRow(coupon_data))
            /\ resp' = RowResp("create_coupon", Len(coupons) + 1, CouponRow(coupon_data))
    /\ UNCHANGED <<now, reviews, commerceVars, reg, catalogVars, promotions, softDeleted>>

\* PATCH /promotions/coupons/{coupon_id}
update_coupon(coupon_id, update_data, cred) ==
    /\ users' = UsersAfterAuth(cred)
    /\ IF require_admin(cred) # 200
       THEN /\ coupons' = coupons
            /\ resp' = Resp("update_coupon", require_admin(cred), coupon_id)
       ELSE IF coupon_id \notin Ids(coupons)
       THEN /\ coupons' = coupons
            /\ resp' = Resp("update_coupon", 404, coupon_id)
       ELSE /\ coupons' = [coupons EXCEPT ![coupon_id] = ApplyUpdate(@, update_data)]
            /\ resp' = RowResp("update_coupon", coupon_id, coupons'[coupon_id])
    /\ UNCHANGED <<now, reviews, commerceVars, reg, catalogVars, promotions, softDeleted>>

\* ------------------------------------------- specification: the discount
\* calculate_discount over a store of one promotion and one coupon.  The
\* promotion is drawn with every discount type, value and minimum purchase,
\* and with each of the conditions the validity check reads: valid throughout,
\* inactive, ended (fecha_fin 0 is in the past at time 1), not yet started
\* (fecha_inicio 1 at time 0) and with no fecha_inicio at all (PromotionCreate
\* leaves it None and create_promotion stores the None).
BasePromotion ==
    [nombre |-> "promo", tipo_descuento |-> "porcentaje", valor |-> 15,
     monto_minimo_compra |-> 0, fecha_inicio |-> 0, fecha_fin |-> None,
     es_activa |-> TRUE]

PromotionConditions ==
    {BasePromotion,
     [BasePromotion EXCEPT !.es_activa = FALSE],
     [BasePromotion EXCEPT !.fecha_fin = 0],
     [BasePromotion EXCEPT !.fecha_inicio = 1],
     [BasePromotion EXCEPT !.fecha_inicio = None]}

DiscountPromotions ==
    {[p EXCEPT !.tipo_descuento = t, !.valor = v, !.monto_minimo_compra = m] :
        p \in PromotionConditions, t \in {"porcentaje", "monto_fijo"},
        v \in {15, 150}, m \in {0, 15}}

BaseCoupon ==
    [codigo |-> "SAVE", promocion_id |-> 1, fecha_expiracion |-> None,
     limite_usos |-> None, usos_actuales |-> 0, es_activo |-> TRUE]

DiscountCoupons ==
    {BaseCoupon,
     [BaseCoupon EXCEPT !.es_activo = FALSE],
     [BaseCoupon EXCEPT !.fecha_expiracion = 0],
     [BaseCoupon EXCEPT !.limite_usos = 1],
     [BaseCoupon EXCEPT !.limite_usos = 1, !.usos_actuales = 1],
     [BaseCoupon EXCEPT !.limite_usos = 0, !.usos_actuales = 1]}

\* Cart items: one without a quantity (the default 1 applies) and one with.
CartItems ==
    {[book_id |-> 1, quantity |-> None, price |-> 10],
     [book_id |-> 1, quantity |-> 2, price |-> 10]}
Carts == SeqsUpTo(CartItems, MaxCart)
CouponCodes == {NoStr, "", "SAVE", "NOPE"}

InitDiscount ==
    /\ now = 0
    /\ users = <<SeedCliente>>
    /\ reg = [w \in Workers |-> IdleReq]
    /\ books = << >> /\ authors = << >> /\ categories = << >> /\ publishers = << >>
    /\ book_authors = {} /\ book_categories = {}
    /\ promotions \in {<<p>> : p \in DiscountPromotions}
    /\ coupons \in {<<c>> : c \in DiscountCoupons}
    /\ EmptyCommerce
    /\ softDeleted = {}
    /\ resp = NoResp

NextDiscount ==
    \/ Tick
    \/ \E cart \in Carts, code \in CouponCodes, cred \in {Token(1, "access"), BadToken} :
          calculate_discount(cart, code, cred)
    \/ \E code \in {"SAVE", "NOPE"}, cred \in {Token(1, "access"), BadToken} :
          validate_coupon(code, cred)

SpecDiscount == InitDiscount /\ [][NextDiscount]_vars

\* C1 (as claimed): whenever calculate_discount answers for a cart of
\* non-negative prices and quantities with a promotion of non-negative valor
\* applied, 0 <= descuento <= subtotal and total_final >= 0.
C1_DiscountClamped ==
    (resp.op = "calculate_discount" /\ resp.status = 200
        /\ \A it \in CartItems : ItemPrice(it) >= 0 /\ ItemQuantity(it) >= 0
        /\ resp.promocion_aplicada # None
        /\ promotions[resp.promocion_aplicada].valor >= 0)
    => /\ 0 <= resp.descuento100
       /\ resp.descuento100 <= resp.subtotal * 100
       /\ resp.total_final100 = resp.subtotal * 100 - resp.descuento100
       /\ resp.total_final100 >= 0

\* The validity checks as the claims word them, at the instant t: the coupon
\* is active, the promotion is active, the coupon has not expired, the
\* promotion has not ended, the promotion has started, and the usage limit,
\* if there is one, is not reached.
CouponPassesChecks(c, p, t) ==
    /\ c.es_activo /\ p.es_activa
    /\ c.fecha_expiracion = None \/ c.fecha_expiracion >= t
    /\ p.fecha_fin = None \/ p.fecha_fin >= t
    /\ p.fecha_inicio # None /\ p.fecha_inicio <= t
    /\ ~Truthy(c.limite_usos) \/ c.usos_actuales < c.limite_usos

C19_SameValidityChecks ==
    [][(resp'.op = "validate_coupon" /\ resp'.status \notin {401, 404} /\ now' = now)
       => LET c == coupons[CouponByCode(resp'.coupon_code)] IN
          (resp'.status = 200 /\ resp'.valid)
          <=> DiscountIsValid(c, promotions[c.promocion_id]) = "yes"]_vars

\* validate_coupon accepted a coupon at the instant it expires, with a
\* limite_usos that is not set or is 0.
C19_Witness ==
    /\ resp.op = "validate_coupon" /\ resp.status = 200 /\ resp.valid
    /\ coupons[1].fecha_expiracion = now
    /\ ~Truthy(coupons[1].limite_usos)

\* --------------------------------- specification: concurrent registration
\* Two workers serve create_user, register_user and auth.register requests
\* whose steps interleave; users are soft-deleted in between.
Emails == {"a@x", "b@x"}
DniA == <<"1", "2", "3", "4", "5", "6", "7", "8">>
DniB == <<"8", "7", "6", "5", "4", "3", "2", "1">>

RegInputs ==
    [nombre : {"n"}, email : Emails, tipo_documento : {"DNI"},
     numero_documento : {DniA, DniB}, fecha_nacimiento : {NoDate}]

EmptyCatalog ==
    /\ books = << >> /\ authors = << >> /\ categories = << >> /\ publishers = << >>
    /\ book_authors = {} /\ book_categories = {}

InitRegister ==
    /\ now = 0
    /\ users = << >>
    /\ reg = [w \in Workers |-> IdleReq]
    /\ EmptyCatalog
    /\ promotions = << >> /\ coupons = << >>
    /\ EmptyCommerce
    /\ softDeleted = {}
    /\ resp = NoResp

NextRegister ==
    \/ \E w \in Workers, op \in RegOps, data \in RegInputs : RegStart(w, op, data)
    \/ \E w \in Workers, op \in RegOps :
          RegStart(w, op, [nombre |-> "n", email |-> "a@x", tipo_documento |-> "DNI",
                           numero_documento |-> <<"1", "2", "3", "4", "5", "6", "7", "x">>,
                           fecha_nacimiento |-> NoDate])
    \/ \E w \in Workers : RegLookupDocumento(w)
    \/ \E w \in Workers : RegCommit(w)
    \/ \E user_id \in 1..MaxUsers : delete_user(user_id)
    \/ \E active_only \in BOOLEAN : get_users(active_only, 0, DefaultLimit)

SpecRegister == InitRegister /\ [][NextRegister]_vars

\* C2: in every reachable state no two user records share the same email,
\* whatever the interleaving of the lookups and inserts of create_user,
\* register_user and auth.register.
C2_EmailUnique ==
    \A i, j \in Ids(users) : users[i].email = users[j].email => i = j

\* C2's case: two requests for one email both passed the lookup, one inserted
\* its row and the commit of the other was refused.
C2_Witness ==
    /\ resp.op \in RegOps
    /\ resp.status = 500
    /\ resp.detail = "unique_email"
    /\ Len(users) >= 1

\* C3: a registration that looks up an email some user record holds (active
\* or soft-deleted) answers 400 for the email and adds no user, before the
\* document is looked at; one that looks up a document some user record holds
\* answers 400 and adds no user; and a record never loses its email or its
\* document, so that what was held when the handler was called is still held
\* when it is looked up.
C3_DuplicateRejected ==
    [][ /\ \A w \in Workers, op \in RegOps, data \in RegInputs :
             ((\E i \in Ids(users) : users[i].email = data.email)
                /\ RegStart(w, op, data))
             => /\ resp'.op = op /\ resp'.status = 400 /\ resp'.detail = "email"
                /\ users' = users
                /\ reg'[w].pc = "idle"
        /\ \A w \in Workers :
             ((\E i \in Ids(users) :
                    users[i].numero_documento = reg[w].data.numero_documento)
                /\ RegLookupDocumento(w))
             => /\ resp'.op = reg[w].op /\ resp'.status = 400
                /\ resp'.detail = "documento"
                /\ users' = users
                /\ reg'[w].pc = "idle"
        /\ \A i \in Ids(users) :
             /\ i \in Ids(users')
             /\ users'[i].email = users[i].email
             /\ users'[i].numero_documento = users[i].numero_documento
      ]_vars

\* C3's case: a registration was answered 400 because of a record that is
\* soft-deleted.
C3_Witness ==
    /\ resp.op \in RegOps
    /\ resp.status = 400
    /\ resp.detail \in {"email", "documento"}
    /\ ~users[resp.row].esta_activo

\* C18 (as claimed): every user record that create_user, register_user or
\* auth.register creates has a numero_documento that
\* validate_documento_peruano accepts for its tipo_documento, and a
\* registration whose document has an invalid format answers 400 and adds no
\* user.
C18_DocumentoValidated ==
    [][\A w \in Workers :
          ~validate_documento_peruano(reg[w].data.tipo_documento, reg[w].data.numero_documento)
          => /\ RegLookupDocumento(w) => resp'.status = 400 /\ reg'[w].pc = "idle"
             /\ RegCommit(w) => users' = users]_vars

\* C12 (as claimed): get_users and create_user are administrator-only.  The
\* two handlers declare no credential at all, so a request reaches them
\* whatever Authorization header it carries, a missing one included: the
\* claim is that every such request is rejected with 401 or 403, that
\* get_users returns no rows and that create_user adds no user.
C12_UsersAdminOnly ==
    [][/\ \A active_only \in BOOLEAN :
             get_users(active_only, 0, DefaultLimit) => resp'.status \in {401, 403}
       /\ \A w \in Workers :
             reg[w].op = "create_user" /\ RegCommit(w)
             => resp'.status \in {401, 403} /\ users' = users]_vars

\* ---------------------------------------- specification: the catalogue
\* The books and authors handlers over a store that starts with one book, its
\* author and its category (a state create_book, create_author,
\* create_category and the two assign endpoints lead to).  Ids are drawn one
\* past the largest the tables can hold, so that an unknown id is always among
\* the inputs.
BookInputs == [titulo : {"t"}, isbn : {NoStr, "i1"}]
BookUpdates == [titulo : {"t", "u"}]
AuthorInputs == [nombre_completo : {"a"}]
AuthorUpdates == [nombre_completo : {"a"}]
CatalogListParams == [active_only : BOOLEAN, skip : {0, 1}, limit : {DefaultLimit}]

InitCatalog ==
    /\ now = 0
    /\ users = << >>
    /\ reg = [w \in Workers |-> IdleReq]
    /\ books = << BookRow([titulo |-> "t", isbn |-> "i1"]) >>
    /\ authors = << AuthorRow([nombre_completo |-> "a"]) >>
    /\ categories = << CategoryRow([nombre |-> "x", categoria_padre_id |-> None,
                                    orden_display |-> 0]) >>
    /\ publishers = << >>
    /\ book_authors = {[libro_id |-> 1, autor_id |-> 1, orden |-> 1]}
    /\ book_categories = {[libro_id |-> 1, categoria_id |-> 1]}
    /\ promotions = << >> /\ coupons = << >>
    /\ EmptyCommerce
    /\ softDeleted = {}
    /\ resp = NoResp

NextCatalog ==
    \/ \E p \in CatalogListParams : ListBooks(p.active_only, p.skip, p.limit)
    \/ \E book_id \in 1..MaxBooks + 1 : get_book(book_id)
    \/ \E book_data \in BookInputs : create_book(book_data)
    \/ \E book_id \in 1..MaxBooks + 1, book_data \in BookUpdates : update_book(book_id, book_data)
    \/ \E book_id \in 1..MaxBooks + 1 : delete_book(book_id)
    \/ \E book_id \in 1..MaxBooks + 1 : get_book_authors(book_id)
    \/ \E book_id \in 1..MaxBooks + 1 : get_book_categories(book_id)
    \/ \E p \in CatalogListParams : get_authors(p.active_only, p.skip, p.limit)
    \/ \E author_id \in 1..MaxAuthors + 1 : get_author(author_id)
    \/ \E author_data \in AuthorInputs : create_author(author_data)
    \/ \E author_id \in 1..MaxAuthors + 1, author_data \in AuthorUpdates :
          update_author(author_id, author_data)
    \/ \E author_id \in 1..MaxAuthors + 1 : delete_author(author_id)

SpecCatalog == InitCatalog /\ [][NextCatalog]_vars

\* C4 (as claimed): create_book called with the ISBN of an existing book
\* answers 400 and leaves the books unchanged.
C4_DuplicateIsbnIs400 ==
    [][ \A book_data \in BookInputs :
          ((\E i \in Ids(books) : books[i].isbn = book_data.isbn)
             /\ create_book(book_data))
          => resp'.status = 400 /\ books' = books ]_vars

\* C7 (as claimed): a GET /books/ with default parameters returns no book a
\* delete_book succeeded on.
C7_DeletedBookNotListed ==
    (resp.op = "GET /books/" /\ resp.status = 200
        /\ resp.active_only /\ resp.skip = 0 /\ resp.limit = DefaultLimit)
    => \A b \in Ids(books) : <<"books", b>> \in softDeleted => b \notin Range(resp.rows)

\* What C10 asks of one request: if the id it addresses matches no row of the
\* table, the answer is 404 and the store is as it was.
NotFoundContract(Request, table, id) ==
    (id \notin Ids(table) /\ Request)
    => resp'.status = 404 /\ UNCHANGED <<userVars, catalogVars, promoVars>>

\* C10 (as claimed): every book or author operation that addresses a record by
\* an id no stored record has answers 404 and leaves the store unchanged, the
\* reads get_book_authors and get_book_categories included.
C10_UnknownIdIs404 ==
    [][ /\ \A id \in 1..MaxBooks + 1 :
             /\ NotFoundContract(get_book(id), books, id)
             /\ NotFoundContract(delete_book(id), books, id)
             /\ NotFoundContract(get_book_authors(id), books, id)
             /\ NotFoundContract(get_book_categories(id), books, id)
             /\ \A book_data \in BookUpdates :
                  NotFoundContract(update_book(id, book_data), books, id)
        /\ \A id \in 1..MaxAuthors + 1 :
             /\ NotFoundContract(get_author(id), authors, id)
             /\ NotFoundContract(delete_author(id), authors, id)
             /\ \A author_data \in AuthorUpdates :
                  NotFoundContract(update_author(id, author_data), authors, id)
      ]_vars

\* --------------------------------- specification: category and publisher names
\* create, PATCH and delete of categories and publishers from an empty store.
\* The PATCH bodies set nombre (to a name, or to null), or orden_display
\* alone, or nothing.
Names == {"x", "y"}
CategoryInputs == [nombre : Names, categoria_padre_id : {None, 2}, orden_display : {0}]
CategoryUpdates ==
    {[nombre |-> n] : n \in Names \cup {NoStr}} \cup {[orden_display |-> 1], << >>}
PublisherInputs == [nombre : Names]
PublisherUpdates == {[nombre |-> n] : n \in Names \cup {NoStr}} \cup {<< >>}

InitNames ==
    /\ now = 0
    /\ users = << >>
    /\ reg = [w \in Workers |-> IdleReq]
    /\ EmptyCatalog
    /\ promotions = << >> /\ coupons = << >>
    /\ EmptyCommerce
    /\ softDeleted = {}
    /\ resp = NoResp

NextNames ==
    \/ \E category_data \in CategoryInputs : create_category(category_data)
    \/ \E category_id \in 1..MaxCategories + 1, update_data \in CategoryUpdates :
          update_category(category_id, update_data)
    \/ \E category_id \in 1..MaxCategories + 1 : delete_category(category_id)
    \/ \E publisher_data \in PublisherInputs : create_publisher(publisher_data)
    \/ \E publisher_id \in 1..MaxPublishers + 1, update_data \in PublisherUpdates :
          update_publisher(publisher_id, update_data)
    \/ \E publisher_id \in 1..MaxPublishers + 1 : delete_publisher(publisher_id)

SpecNames == InitNames /\ [][NextNames]_vars

NamesUnique ==
    /\ \A i, j \in Ids(categories) : categories[i].nombre = categories[j].nombre => i = j
    /\ \A i, j \in Ids(publishers) : publishers[i].nombre = publishers[j].nombre => i = j

\* What C6 asks of one create: if some record holds the name, the answer is
\* 400 and the table is as it was.
CreateNameContract(Request, table, nombre) ==
    ((\E i \in Ids(table) : table[i].nombre = nombre) /\ Request)
    => resp'.status = 400 /\ UNCHANGED catalogVars

\* What C6 asks of one PATCH of a stored record that sets nombre: if a
\* different record holds the name, the answer is 400 and the table is as it
\* was; if the name is the record's own, the PATCH is accepted.
RenameContract(Request, table, id, update_data) ==
    (id \in Ids(table) /\ "nombre" \in DOMAIN update_data /\ Request)
    => /\ (\E i \in Ids(table) : i # id /\ table[i].nombre = update_data.nombre)
            => resp'.status = 400 /\ UNCHANGED catalogVars
       /\ table[id].nombre = update_data.nombre => resp'.status = 200

\* C6: no two categories share a nombre and no two publishers share a nombre
\* in any state create and PATCH calls lead to; a create or a rename to a name
\* a different record holds answers 400 and changes nothing; a PATCH that
\* keeps the record's own name is accepted.
C6_NamesStayUnique ==
    /\ []NamesUnique
    /\ [][ /\ \A category_data \in CategoryInputs :
                CreateNameContract(create_category(category_data), categories,
                                   category_data.nombre)
           /\ \A publisher_data \in PublisherInputs :
                CreateNameContract(create_publisher(publisher_data), publishers,
                                   publisher_data.nombre)
           /\ \A id \in 1..MaxCategories + 1, update_data \in CategoryUpdates :
                RenameContract(update_category(id, update_data), categories, id, update_data)
           /\ \A id \in 1..MaxPublishers + 1, update_data \in PublisherUpdates :
                RenameContract(update_publisher(id, update_data), publishers, id, update_data)
         ]_vars

\* C6's case: with both names taken in both tables, a rename of a publisher
\* to the other publisher's name was answered 400.
C6_Witness ==
    /\ resp.op = "update_publisher"
    /\ resp.status = 400
    /\ Len(publishers) = 2
    /\ Len(categories) = 2

\* ------------------------------------------------ specification: coupons
\* create_coupon and update_coupon over a store of an admin, a customer and
\* one promotion, called by the admin, by the customer and with a token that
\* does not decode.
Creds == {Token(1, "access"), Token(2, "access"), BadToken}
CouponInputs ==
    [codigo : {"SAVE", "GIFT"}, promocion_id : {1, 2}, fecha_expiracion : {None},
     limite_usos : {None}]
CouponUpdates == {[es_activo |-> FALSE], [limite_usos |-> 1], [fecha_expiracion |-> 0], << >>}

InitPromo ==
    /\ now = 0
    /\ users = << SeedAdmin, SeedCliente >>
    /\ reg = [w \in Workers |-> IdleReq]
    /\ EmptyCatalog
    /\ promotions = << BasePromotion >>
    /\ coupons = << >>
    /\ EmptyCommerce
    /\ softDeleted = {}
    /\ resp = NoResp

NextPromo ==
    \/ \E coupon_data \in CouponInputs, cred \in Creds : create_coupon(coupon_data, cred)
    \/ \E coupon_id \in 1..MaxCoupons + 1, update_data \in CouponUpdates, cred \in Creds :
          update_coupon(coupon_id, update_data, cred)

SpecPromo == InitPromo /\ [][NextPromo]_vars

CodigosUnique ==
    \A i, j \in Ids(coupons) : coupons[i].codigo = coupons[j].codigo => i = j

\* C5: create_coupon, run for a caller require_admin lets through, with a
\* codigo some coupon holds answers 400 and adds no coupon; and no two coupons
\* share a codigo in any state create_coupon and update_coupon calls lead to.
C5_CodigoUnique ==
    /\ []CodigosUnique
    /\ [][ \A coupon_data \in CouponInputs, cred \in Creds :
             ((\E i \in Ids(coupons) : coupons[i].codigo = coupon_data.codigo)
                /\ require_admin(cred) = 200
                /\ create_coupon(coupon_data, cred))
             => resp'.status = 400 /\ coupons' = coupons ]_vars

\* C5's case: after a coupon was created and updated, a create_coupon with
\* its codigo was answered 400.
C5_Witness ==
    /\ resp.op = "create_coupon"
    /\ resp.status = 400
    /\ \E i \in Ids(coupons) : ~coupons[i].es_activo

\* ------------------------------------------- specification: soft delete
\* The delete, get-by-id and listing endpoints of users, books, authors,
\* categories, publishers and promotions, and the PATCH of a promotion, over a
\* store that holds records of every kind.  The second category is displayed
\* before the first.  Listings are asked for with the default page and with a
\* page of one row; the caller of the authenticated endpoints is the admin.
LifeCreds == {Token(1, "access")}
Pages == {[skip |-> 0, limit |-> DefaultLimit], [skip |-> 0, limit |-> 1]}
PromotionUpdates == {[es_activa |-> TRUE]}

InitLifecycle ==
    /\ now = 0
    /\ users = << SeedAdmin, SeedCliente >>
    /\ reg = [w \in Workers |-> IdleReq]
    /\ books = << BookRow([titulo |-> "t", isbn |-> "i1"]) >>
    /\ authors = << AuthorRow([nombre_completo |-> "a"]) >>
    /\ categories = << CategoryRow([nombre |-> "x", categoria_padre_id |-> None,
                                    orden_display |-> 1]),
                       CategoryRow([nombre |-> "y", categoria_padre_id |-> 1,
                                    orden_display |-> 0]) >>
    /\ publishers = << PublisherRow([nombre |-> "x"]) >>
    /\ book_authors = {[libro_id |-> 1, autor_id |-> 1, orden |-> 1]}
    /\ book_categories = {[libro_id |-> 1, categoria_id |-> 1]}
    /\ promotions = << BasePromotion, [BasePromotion EXCEPT !.nombre = "other"] >>
    /\ coupons = << >>
    /\ EmptyCommerce
    /\ softDeleted = {}
    /\ resp = NoResp

NextLifecycle ==
    \/ \E id \in 1..Len(users) : delete_user(id)
    \/ \E id \in 1..Len(books) : delete_book(id)
    \/ \E id \in 1..Len(authors) : delete_author(id)
    \/ \E id \in 1..Len(categories) : delete_category(id)
    \/ \E id \in 1..Len(publishers) : delete_publisher(id)
    \/ \E id \in 1..Len(promotions), cred \in LifeCreds : deactivate_promotion(id, cred)
    \/ \E id \in 1..Len(promotions), update_data \in PromotionUpdates, cred \in LifeCreds :
          update_promotion(id, update_data, cred)
    \/ \E id \in 1..Len(users) : get_user(id)
    \/ \E id \in 1..Len(books) : get_book(id)
    \/ \E id \in 1..Len(authors) : get_author(id)
    \/ \E id \in 1..Len(categories) : get_category(id)
    \/ \E id \in 1..Len(publishers) : get_publisher(id)
    \/ \E id \in 1..Len(promotions) : get_promotion(id)
    \/ \E a \in BOOLEAN, p \in Pages : get_users(a, p.skip, p.limit)
    \/ \E a \in BOOLEAN, p \in Pages : get_authors(a, p.skip, p.limit)
    \/ \E a \in BOOLEAN, p \in Pages : get_categories(a, p.skip, p.limit)
    \/ \E a \in BOOLEAN, p \in Pages : get_publishers(a, p.skip, p.limit)
    \/ \E a \in BOOLEAN, p \in Pages : get_promotions(a, p.skip, p.limit)

SpecLifecycle == InitLifecycle /\ [][NextLifecycle]_vars

\* The table a listing lists, by the name softDeleted files its records under.
ListedTable ==
    [get_users |-> "users", get_authors |-> "authors", get_categories |-> "categories",
     get_publishers |-> "publishers", get_promotions |-> "promotions"]

\* The rows of a table, and whether a row's active flag is set.
TableRows(t) ==
    CASE t = "users" -> users
      [] t = "authors" -> authors
      [] t = "categories" -> categories
      [] t = "publishers" -> publishers
      [] t = "promotions" -> promotions

FlagSet(t, id) ==
    CASE t = "users" -> users[id].esta_activo
      [] t = "authors" -> authors[id].esta_activo
      [] t = "categories" -> categories[id].esta_activa
      [] t = "publishers" -> publishers[id].esta_activa
      [] t = "promotions" -> promotions[id].es_activa

\* C8 (as claimed): once a delete succeeded on an author, category, publisher,
\* user or promotion, the listing with its default parameters never returns
\* the record, and the same listing with active_only = false does.
C8_DeletedNeverListed ==
    (resp.op \in DOMAIN ListedTable /\ resp.status = 200
        /\ resp.skip = 0 /\ resp.limit = DefaultLimit)
    => \A id \in Ids(TableRows(ListedTable[resp.op])) :
         <<ListedTable[resp.op], id>> \in softDeleted
         => (resp.active_only <=> id \notin Range(resp.rows))

\* C8 (amended): once a delete succeeded on an author, category, publisher,
\* user or promotion, a listing with active_only = true, whatever its page,
\* does not return the record for as long as the record's active flag is
\* false (update_promotion can set a promotion's flag again; nothing sets the
\* flag of the other four), and a listing with active_only = false, skip = 0
\* and a limit no smaller than the number of rows returns it.
C8_DeletedListedOnlyOnRequest ==
    (resp.op \in DOMAIN ListedTable /\ resp.status = 200)
    => \A id \in Ids(TableRows(ListedTable[resp.op])) :
         <<ListedTable[resp.op], id>> \in softDeleted
         => /\ (resp.active_only /\ ~FlagSet(ListedTable[resp.op], id))
                 => id \notin Range(resp.rows)
            /\ (~resp.active_only /\ resp.skip = 0
                  /\ resp.limit >= Len(TableRows(ListedTable[resp.op])))
                 => id \in Range(resp.rows)
            /\ (ListedTable[resp.op] # "promotions")
                 => ~FlagSet(ListedTable[resp.op], id)

\* C8's case: a promotion was deactivated and the promotions were listed;
\* the listing is the one without the active filter and it has the promotion.
C8_Witness ==
    /\ resp.op = "get_promotions"
    /\ ~resp.active_only
    /\ \E id \in Ids(promotions) :
         /\ <<"promotions", id>> \in softDeleted
         /\ ~promotions[id].es_activa
         /\ id \in Range(resp.rows)

\* Every table is as it was, but for the tables named in ts.
OthersUnchanged(ts) ==
    /\ "users" \notin ts => users' = users
    /\ "books" \notin ts => books' = books
    /\ "authors" \notin ts => authors' = authors
    /\ "categories" \notin ts => categories' = categories
    /\ "publishers" \notin ts => publishers' = publishers
    /\ "promotions" \notin ts => promotions' = promotions
    /\ UNCHANGED <<book_authors, book_categories, coupons, commerceVars, reviews>>

\* A table after the soft delete of row id: the flag is false; no row is gone,
\* every other field of the row and every other row is as it was.
FlagCleared(before, after, id, flag) ==
    after = [before EXCEPT ![id][flag] = FALSE]

\* What C9 asks of the five deletes that take no token, and of the six
\* get-by-id endpoints.
SoftDeleteFrame ==
    /\ \A id \in Ids(users) :
         (resp'.op = "delete_user" /\ delete_user(id))
         => FlagCleared(users, users', id, "esta_activo") /\ OthersUnchanged({"users"})
    /\ \A id \in Ids(books) :
         (resp'.op = "delete_book" /\ delete_book(id))
         => FlagCleared(books, books', id, "esta_activo") /\ OthersUnchanged({"books"})
    /\ \A id \in Ids(authors) :
         (resp'.op = "delete_author" /\ delete_author(id))
         => FlagCleared(authors, authors', id, "esta_activo") /\ OthersUnchanged({"authors"})
    /\ \A id \in Ids(categories) :
         (resp'.op = "delete_category" /\ delete_category(id))
         => /\ FlagCleared(categories, categories', id, "esta_activa")
            /\ OthersUnchanged({"categories"})
    /\ \A id \in Ids(publishers) :
         (resp'.op = "delete_publisher" /\ delete_publisher(id))
         => /\ FlagCleared(publishers, publishers', id, "esta_activa")
            /\ OthersUnchanged({"publishers"})
    /\ \A id \in Ids(users) :
         (resp'.op = "get_user" /\ <<"users", id>> \in softDeleted /\ get_user(id))
         => resp'.status = 200 /\ resp'.row = users[id]
    /\ \A id \in Ids(books) :
         (resp'.op = "get_book" /\ <<"books", id>> \in softDeleted /\ get_book(id))
         => resp'.status = 200 /\ resp'.row = books[id]
    /\ \A id \in Ids(authors) :
         (resp'.op = "get_author" /\ <<"authors", id>> \in softDeleted /\ get_author(id))
         => resp'.status = 200 /\ resp'.row = authors[id]
    /\ \A id \in Ids(categories) :
         (resp'.op = "get_category" /\ <<"categories", id>> \in softDeleted
            /\ get_category(id))
         => resp'.status = 200 /\ resp'.row = categories[id]
    /\ \A id \in Ids(publishers) :
         (resp'.op = "get_publisher" /\ <<"publishers", id>> \in softDeleted
            /\ get_publisher(id))
         => resp'.status = 200 /\ resp'.row = publishers[id]
    /\ \A id \in Ids(promotions) :
         (resp'.op = "get_promotion" /\ <<"promotions", id>> \in softDeleted
            /\ get_promotion(id))
         => resp'.status = 200 /\ resp'.row = promotions[id]

\* C9 (as claimed): a delete of a user, book, author, category, publisher or
\* promotion sets the record's active flag to false and changes nothing else
\* in the store, and the record is still returned by the get-by-id endpoint.
C9_SoftDeleteChangesOnlyFlag ==
    [][ /\ SoftDeleteFrame
        /\ \A id \in Ids(promotions), cred \in LifeCreds :
             (resp'.op = "deactivate_promotion" /\ resp'.status = 200
                /\ deactivate_promotion(id, cred))
             => /\ FlagCleared(promotions, promotions', id, "es_activa")
                /\ OthersUnchanged({"promotions"})
      ]_vars

\* C9 (amended): a delete of a user, book, author, category, publisher or
\* promotion sets the record's active flag to false, removes no record and
\* leaves every other field of the record and every other record unchanged,
\* except that deactivate_promotion, which takes a token, also sets the
\* fecha_ultima_actividad of the calling user to the current time; the record
\* is still returned by the get-by-id endpoint.
C9_SoftDeleteAndActivityStamp ==
    [][ /\ SoftDeleteFrame
        /\ \A id \in Ids(promotions), cred \in LifeCreds :
             (resp'.op = "deactivate_promotion" /\ resp'.status = 200
                /\ deactivate_promotion(id, cred))
             => /\ FlagCleared(promotions, promotions', id, "es_activa")
                /\ users' = [users EXCEPT ![cred.sub].fecha_ultima_actividad = now]
                /\ OthersUnchanged({"promotions", "users"})
      ]_vars

\* C9's case: a promotion was deactivated and then fetched by its id.
C9_Witness ==
    /\ resp.op = "get_promotion"
    /\ resp.status = 200
    /\ <<"promotions", resp.id>> \in softDeleted
    /\ ~resp.row.es_activa

\* ------------------------------------- promotions.py: assignments, coupons
\* POST /promotions/{promotion_id}/books/{book_id}
assign_promotion_to_book(promotion_id, book_id, cred) ==
    /\ users' = UsersAfterAuth(cred)
    /\ IF require_admin(cred) # 200
       THEN /\ promotion_books' = promotion_books
            /\ resp' = Resp("assign_promotion_to_book", require_admin(cred), promotion_id)
       ELSE IF promotion_id \notin Ids(promotions) \/ book_id \notin Ids(books)
       THEN /\ promotion_books' = promotion_books
            /\ resp' = Resp("assign_promotion_to_book", 404, promotion_id)
       ELSE IF [promocion_id |-> promotion_id, libro_id |-> book_id] \in promotion_books
       THEN /\ promotion_books' = promotion_books
            /\ resp' = Resp("assign_promotion_to_book", 400, promotion_id)
       ELSE /\ promotion_books' = promotion_books \cup
                                    {[promocion_id |-> promotion_id, libro_id |-> book_id]}
            /\ resp' = Resp("assign_promotion_to_book", 200, promotion_id)
    /\ UNCHANGED <<now, reviews, reg, catalogVars, promoVars, promotion_categories, orders,
                   order_details, softDeleted>>

\* POST /promotions/{promotion_id}/categories/{category_id}
assign_promotion_to_category(promotion_id, category_id, cred) ==
    /\ users' = UsersAfterAuth(cred)
    /\ IF require_admin(cred) # 200
       THEN /\ promotion_categories' = promotion_categories
            /\ resp' = Resp("assign_promotion_to_category", require_admin(cred), promotion_id)
       ELSE IF promotion_id \notin Ids(promotions) \/ category_id \notin Ids(categories)
       THEN /\ promotion_categories' = promotion_categories
            /\ resp' = Resp("assign_promotion_to_category", 404, promotion_id)
       ELSE IF [promocion_id |-> promotion_id, categoria_id |-> category_id]
                   \in promotion_categories
       THEN /\ promotion_categories' = promotion_categories
            /\ resp' = Resp("assign_promotion_to_category", 400, promotion_id)
       ELSE /\ promotion_categories' = promotion_categories \cup
                    {[promocion_id |-> promotion_id, categoria_id |-> category_id]}
            /\ resp' = Resp("assign_promotion_to_category", 200, promotion_id)
    /\ UNCHANGED <<now, reviews, reg, catalogVars, promoVars, promotion_books, orders,
                   order_details, softDeleted>>

\* GET /promotions/coupons/?active_only=&skip=&limit=
get_coupons(active_only, skip, limit, cred) ==
    /\ users' = UsersAfterAuth(cred)
    /\ resp' = IF require_admin(cred) # 200
               THEN Resp("get_coupons", require_admin(cred), None)
               ELSE ListResp("get_coupons", active_only, skip, limit,
                        Page(SelectIds(coupons,
                                       {i \in Ids(coupons) :
                                           active_only =>
                                               /\ coupons[i].es_activo
                                               /\ \/ coupons[i].fecha_expiracion = None
                                                  \/ coupons[i].fecha_expiracion >= now}),
                             skip, limit))
    /\ UNCHANGED <<now, reviews, reg, catalogVars, promoVars, commerceVars, softDeleted>>

\* ------------------------------------------------------------- orders.py
\* A row of pedidos (the columns the handlers read or write; total and notas
\* stand for the amounts and the free-text columns).
OrderRow(order_data, usuario_id) ==
    [usuario_id |-> usuario_id, fecha |-> now, total |-> order_data.total,
     estado |-> "pendiente_pago", fecha_envio |-> None, fecha_entrega_real |-> None,
     notas |-> order_data.notas]

\* A row of detalle_pedidos.
OrderDetailRow(detail_data, pedido_id) ==
    [pedido_id |-> pedido_id, libro_id |-> detail_data.libro_id,
     cantidad |-> detail_data.cantidad]

\* POST /orders/: the order belongs to the caller.
create_order(order_data, cred) ==
    /\ users' = UsersAfterAuth(cred)
    /\ IF require_user(cred) # 200
       THEN /\ orders' = orders
            /\ resp' = Resp("create_order", 401, None)
       ELSE /\ Len(orders) < MaxOrders
            /\ orders' = Append(orders, OrderRow(order_data, get_current_user(cred)))
            /\ resp' = RowResp("create_order", Len(orders) + 1,
                               OrderRow(order_data, get_current_user(cred)))
    /\ UNCHANGED <<now, reviews, reg, catalogVars, promoVars, promotion_books,
                   promotion_categories, order_details, softDeleted>>

\* PATCH /orders/{order_id}
update_order(order_id, update_data, cred) ==
    /\ users' = UsersAfterAuth(cred)
    /\ IF require_admin(cred) # 200
       THEN /\ orders' = orders
            /\ resp' = Resp("update_order", require_admin(cred), order_id)
       ELSE IF order_id \notin Ids(orders)
       THEN /\ orders' = orders
            /\ resp' = Resp("update_order", 404, order_id)
       ELSE /\ orders' = [orders EXCEPT ![order_id] = ApplyUpdate(@, update_data)]
            /\ resp' = RowResp("update_order", order_id, orders'[order_id])
    /\ UNCHANGED <<now, reviews, reg, catalogVars, promoVars, promotion_books,
                   promotion_categories, order_details, softDeleted>>

\* PATCH /orders/{order_id}/status: enviado stamps fecha_envio, entregado
\* stamps fecha_entrega_real.
update_order_status(order_id, new_status, cred) ==
    /\ users' = UsersAfterAuth(cred)
    /\ IF require_admin(cred) # 200
       THEN /\ orders' = orders
            /\ resp' = Resp("update_order_status", require_admin(cred), order_id)
       ELSE IF order_id \notin Ids(orders)
       THEN /\ orders' = orders
            /\ resp' = Resp("update_order_status", 404, order_id)
       ELSE /\ orders' = [orders EXCEPT
                    ![order_id].estado = new_status,
                    ![order_id].fecha_envio = IF new_status = "enviado" THEN now ELSE @,
                    ![order_id].fecha_entrega_real =
                        IF new_status = "entregado" THEN now ELSE @]
            /\ resp' = [op |-> "update_order_status", status |-> 200, id |-> order_id,
                        estado_anterior |-> orders[order_id].estado,
                        estado_nuevo |-> new_status]
    /\ UNCHANGED <<now, reviews, reg, catalogVars, promoVars, promotion_books,
                   promotion_categories, order_details, softDeleted>>

\* POST /orders/{order_id}/details
add_order_detail(order_id, detail_data, cred) ==
    /\ users' = UsersAfterAuth(cred)
    /\ IF require_admin(cred) # 200
       THEN /\ order_details' = order_details
            /\ resp' = Resp("add_order_detail", require_admin(cred), order_id)
       ELSE IF order_id \notin Ids(orders) \/ detail_data.libro_id \notin Ids(books)
       THEN /\ order_details' = order_details
            /\ resp' = Resp("add_order_detail", 404, order_id)
       ELSE /\ Len(order_details) < MaxOrderDetails
            /\ order_details' = Append(order_details, OrderDetailRow(detail_data, order_id))
            /\ resp' = RowResp("add_order_detail", Len(order_details) + 1,
                               OrderDetailRow(detail_data, order_id))
    /\ UNCHANGED <<now, reviews, reg, catalogVars, promoVars, promotion_books,
                   promotion_categories, orders, softDeleted>>

\* GET /orders/stats/summary (the clock of the model stays within one month)
get_orders_stats(cred) ==
    /\ users' = UsersAfterAuth(cred)
    /\ resp' = IF require_admin(cred) # 200
               THEN Resp("get_orders_stats", require_admin(cred), None)
               ELSE [op |-> "get_orders_stats", status |-> 200, id |-> None,
                     total_pedidos |-> Len(orders),
                     ventas_totales |-> SeqSum([i \in Ids(orders) |-> orders[i].total]),
                     pedidos_este_mes |-> Len(orders)]
    /\ UNCHANGED <<now, reviews, reg, catalogVars, promoVars, commerceVars, softDeleted>>

\* ------------------------------------- specification: the role checks
\* The administrative operations of promotions.py and orders.py, called with
\* the access token of a customer, with their refresh token or with a token
\* that does not decode, over a store in which the admin has set up a
\* promotion, a coupon, a book and a category; the customer's create_order is
\* what brings orders into the store.
CustomerCreds == {Token(2, "access"), Token(2, "refresh"), BadToken}
OrderInputs == [total : {10}, notas : {NoStr}]

InitAccess ==
    /\ now = 0
    /\ users = << SeedAdmin, SeedCliente >>
    /\ reg = [w \in Workers |-> IdleReq]
    /\ books = << BookRow([titulo |-> "t", isbn |-> "i1"]) >>
    /\ authors = << >>
    /\ categories = << CategoryRow([nombre |-> "x", categoria_padre_id |-> None,
                                    orden_display |-> 0]) >>
    /\ publishers = << >>
    /\ book_authors = {} /\ book_categories = {}
    /\ promotions = << BasePromotion >>
    /\ coupons = << BaseCoupon >>
    /\ EmptyCommerce
    /\ softDeleted = {}
    /\ resp = NoResp

\* A call of one of the administrative operations with the credential cred.
AdminCall(cred) ==
    \/ create_promotion([nombre |-> "promo", tipo_descuento |-> "porcentaje", valor |-> 15,
                         monto_minimo_compra |-> 0, fecha_inicio |-> 0, fecha_fin |-> None],
                        cred)
    \/ \E promotion_id \in 1..MaxPromotions, update_data \in PromotionUpdates :
          update_promotion(promotion_id, update_data, cred)
    \/ \E promotion_id \in 1..MaxPromotions : deactivate_promotion(promotion_id, cred)
    \/ \E promotion_id \in 1..MaxPromotions, book_id \in 1..MaxBooks :
          assign_promotion_to_book(promotion_id, book_id, cred)
    \/ \E promotion_id \in 1..MaxPromotions, category_id \in 1..MaxCategories :
          assign_promotion_to_category(promotion_id, category_id, cred)
    \/ create_coupon([codigo |-> "GIFT", promocion_id |-> 1, fecha_expiracion |-> None,
                      limite_usos |-> None], cred)
    \/ \E coupon_id \in 1..MaxCoupons : update_coupon(coupon_id, [es_activo |-> FALSE], cred)
    \/ get_coupons(TRUE, 0, DefaultLimit, cred)
    \/ \E order_id \in 1..MaxOrders : update_order(order_id, [notas |-> "n"], cred)
    \/ \E order_id \in 1..MaxOrders, new_status \in {"enviado", "cancelado"} :
          update_order_status(order_id, new_status, cred)
    \/ \E order_id \in 1..MaxOrders, libro_id \in 1..MaxBooks :
          add_order_detail(order_id, [libro_id |-> libro_id, cantidad |-> 1], cred)
    \/ get_orders_stats(cred)

NextAccess ==
    \/ \E cred \in CustomerCreds : AdminCall(cred)
    \/ \E order_data \in OrderInputs, cred \in CustomerCreds : create_order(order_data, cred)

SpecAccess == InitAccess /\ [][NextAccess]_vars

\* The credential is the access token of an active user of role cliente.
CallerIsCliente(cred) ==
    /\ get_current_user(cred) # None
    /\ users[get_current_user(cred)].rol = "cliente"

\* C11: each of the twelve administrative operations, called by an
\* authenticated user whose role is cliente, answers 403 and leaves the
\* promotions, coupons, orders and order details as they were.
C11_ClienteGets403 ==
    [][\A cred \in CustomerCreds :
          CallerIsCliente(cred) /\ AdminCall(cred)
          => /\ resp'.status = 403
             /\ UNCHANGED <<promotions, coupons, orders, order_details>>]_vars

\* A customer was refused a status change while the store held an order of
\* theirs, a coupon and a promotion.
C11_Witness ==
    /\ resp.op = "update_order_status" /\ resp.status = 403
    /\ \E i \in Ids(orders) : orders[i].usuario_id = 2 /\ orders[i].estado = "pendiente_pago"
    /\ Len(coupons) >= 1 /\ Len(promotions) >= 1

\* C14 (as claimed): a request that ends in an error response (400, 401,
\* 403, 404 or 500) leaves the stored state as it was before the request, also
\* when it fails after its bearer token was accepted.
C14_ErrorRollsBack ==
    [][resp'.status \in {400, 401, 403, 404, 500}
       => UNCHANGED <<users, catalogVars, promoVars, commerceVars>>]_vars

\* ----------------------------------------------- orders.py: the reads
\* The read handlers of orders.py are functions of the tables they query and
\* of the authenticated caller uid; ServeRead makes the request of them.

\* Faulty variant, for sensitivity analysis: the user_id filter offered to
\* every caller.
get_orders_FilterForAll(tbl, uid, user_id, estado, skip, limit) ==
    LET hits == {i \in Ids(tbl) :
                    /\ Truthy(user_id) => tbl[i].usuario_id = user_id
                    /\ estado # NoStr => tbl[i].estado = estado}
    IN  [op |-> "get_orders", status |-> 200, id |-> user_id,
         rows |-> Page(Ordered(hits, [i \in hits |-> <<0 - tbl[i].fecha, i>>]), skip, limit)]

\* GET /orders/?user_id=&status=&skip=&limit= : a caller whose rol is not
\* admin gets their own orders whatever user_id says; newest first, orders
\* of one instant in id order.
get_orders(tbl, uid, user_id, estado, skip, limit) ==
    LET hits == {i \in Ids(tbl) :
                    /\ IF users[uid].rol # "admin" THEN tbl[i].usuario_id = uid
                       ELSE Truthy(user_id) => tbl[i].usuario_id = user_id
                    /\ estado # NoStr => tbl[i].estado = estado}
    IN  [op |-> "get_orders", status |-> 200, id |-> user_id,
         rows |-> Page(Ordered(hits, [i \in hits |-> <<0 - tbl[i].fecha, i>>]), skip, limit)]

\* GET /orders/{order_id}?user_id= : require_admin_or_owner takes user_id,
\* which is no path parameter of this route and so a required query
\* parameter; then the handler's own check of the order's owner.
get_order(tbl, uid, user_id, order_id) ==
    IF users[uid].rol \notin {"admin", "staff"} /\ uid # user_id
    THEN Resp("get_order", 403, order_id)
    ELSE IF order_id \notin Ids(tbl) THEN Resp("get_order", 404, order_id)
    ELSE IF users[uid].rol # "admin" /\ tbl[order_id].usuario_id # uid
    THEN Resp("get_order", 403, order_id)
    ELSE RowResp("get_order", order_id, tbl[order_id])

\* GET /orders/{order_id}/details
get_order_details(tbl, details, uid, order_id) ==
    IF order_id \notin Ids(tbl) THEN Resp("get_order_details", 404, order_id)
    ELSE IF users[uid].rol # "admin" /\ tbl[order_id].usuario_id # uid
    THEN Resp("get_order_details", 403, order_id)
    ELSE [op |-> "get_order_details", status |-> 200, id |-> order_id,
          rows |-> SelectIds(details, {i \in Ids(details) : details[i].pedido_id = order_id})]

\* GET /orders/user/{user_id}/orders?skip=&limit=
get_user_orders(tbl, uid, user_id, skip, limit) ==
    IF users[uid].rol # "admin" /\ uid # user_id
    THEN Resp("get_user_orders", 403, user_id)
    ELSE LET hits == {i \in Ids(tbl) : tbl[i].usuario_id = user_id} IN
         [op |-> "get_user_orders", status |-> 200, id |-> user_id,
          rows |-> Page(Ordered(hits, [i \in hits |-> <<0 - tbl[i].fecha, i>>]),
                        skip, limit)]

\* A request to a read handler that depends on get_current_user: 401, or the
\* handler's answer; the accepted token stamps the caller's activity.
ServeRead(cred, answer) ==
    /\ users' = UsersAfterAuth(cred)
    /\ resp' = IF get_current_user(cred) = None
               THEN [op |-> "get_current_user", status |-> 401, id |-> None]
               ELSE answer
    /\ UNCHANGED <<now, reviews, reg, catalogVars, promoVars, commerceVars, softDeleted>>

\* ------------------------------------- specification: reading orders
\* The admin (user 1) and a customer (user 2) place orders; the admin ships
\* them and adds details; the customer reads through the four read endpoints.
InitOrders ==
    /\ now = 0
    /\ users = << SeedAdmin, SeedCliente >>
    /\ reg = [w \in Workers |-> IdleReq]
    /\ books = << BookRow([titulo |-> "t", isbn |-> "i1"]) >>
    /\ authors = << >> /\ categories = << >> /\ publishers = << >>
    /\ book_authors = {} /\ book_categories = {}
    /\ promotions = << >> /\ coupons = << >>
    /\ EmptyCommerce
    /\ softDeleted = {}
    /\ resp = NoResp

NextOrders ==
    \/ \E cred \in {Token(1, "access"), Token(2, "access")} :
          create_order([total |-> 10, notas |-> NoStr], cred)
    \/ \E order_id \in 1..MaxOrders :
          update_order_status(order_id, "enviado", Token(1, "access"))
    \/ \E order_id \in 1..MaxOrders :
          update_order(order_id, [estado |-> "enviado"], Token(1, "access"))
    \/ \E order_id \in 1..MaxOrders :
          add_order_detail(order_id, [libro_id |-> 1, cantidad |-> 1], Token(1, "access"))
    \/ \E cred \in CustomerCreds, user_id \in {None, 1} :
          ServeRead(cred, get_orders(orders, get_current_user(cred), user_id, NoStr,
                                     0, DefaultLimit))
    \/ \E cred \in CustomerCreds, order_id \in 1..MaxOrders :
          ServeRead(cred, get_order(orders, get_current_user(cred), 2, order_id))
    \/ \E cred \in CustomerCreds, order_id \in 1..MaxOrders :
          ServeRead(cred, get_order_details(orders, order_details,
                                            get_current_user(cred), order_id))
    \/ \E cred \in CustomerCreds, user_id \in Ids(users) :
          ServeRead(cred, get_user_orders(orders, get_current_user(cred), user_id,
                                          0, DefaultLimit))

SpecOrders == InitOrders /\ [][NextOrders]_vars

\* The orders as the caller uid owns them: every order of another user is
\* replaced by a blank order of nobody, and so are the details of those orders.
OwnOrders(uid) ==
    [i \in Ids(orders) |->
        IF orders[i].usuario_id = uid THEN orders[i]
        ELSE [usuario_id |-> None, fecha |-> 0, total |-> 0, estado |-> "pendiente_pago",
              fecha_envio |-> None, fecha_entrega_real |-> None, notas |-> NoStr]]
OwnDetails(uid) ==
    [i \in Ids(order_details) |->
        IF orders[order_details[i].pedido_id].usuario_id = uid THEN order_details[i]
        ELSE [pedido_id |-> None, libro_id |-> None, cantidad |-> 0]]

\* C13: a customer never obtains an order of another user.  In every
\* reachable store and for every request an authenticated customer makes:
\* get_orders answers with orders of the caller only, whatever user_id is
\* passed; get_order, get_order_details and get_user_orders answer 403 when
\* the order or the user_id is another user's; and every answer is the one the
\* same request gets when the other users' orders are blanked out.
C13_ClienteSeesOwnOrders ==
    \A cred \in Creds :
        CallerIsCliente(cred) =>
        LET uid == get_current_user(cred)
            Others(order_id) ==
                order_id \in Ids(orders) /\ orders[order_id].usuario_id # uid
        IN  /\ \A user_id \in {None} \cup Ids(users), estado \in {NoStr, "enviado"},
                  limit \in {1, DefaultLimit} :
                  LET r == get_orders(orders, uid, user_id, estado, 0, limit) IN
                  /\ r.status = 200
                  /\ \A i \in Range(r.rows) : orders[i].usuario_id = uid
                  /\ r = get_orders(OwnOrders(uid), uid, user_id, estado, 0, limit)
            /\ \A user_id \in Ids(users), order_id \in 1..MaxOrders :
                  LET r == get_order(orders, uid, user_id, order_id) IN
                  /\ user_id # uid \/ Others(order_id) => r.status = 403
                  /\ r.status = 200 => r.row.usuario_id = uid
                  /\ r = get_order(OwnOrders(uid), uid, user_id, order_id)
            /\ \A order_id \in 1..MaxOrders :
                  LET r == get_order_details(orders, order_details, uid, order_id) IN
                  /\ Others(order_id) => r.status = 403
                  /\ r.status = 200
                     => \A i \in Range(r.rows) :
                           orders[order_details[i].pedido_id].usuario_id = uid
                  /\ r = get_order_details(OwnOrders(uid), OwnDetails(uid), uid, order_id)
            /\ \A user_id \in Ids(users), limit \in {1, DefaultLimit} :
                  LET r == get_user_orders(orders, uid, user_id, 0, limit) IN
                  /\ user_id # uid => r.status = 403
                  /\ r.status = 200 => \A i \in Range(r.rows) : orders[i].usuario_id = uid
                  /\ r = get_user_orders(OwnOrders(uid), uid, user_id, 0, limit)

\* The customer was refused an order of the admin's while holding one of
\* their own.
C13_Witness ==
    /\ resp.op = "get_order" /\ resp.status = 403
    /\ resp.id \in Ids(orders) /\ orders[resp.id].usuario_id = 1
    /\ \E i \in Ids(orders) : orders[i].usuario_id = 2

\* --------------------------------- specification: the document format
\* GET /users/validate/document: the handler answers with what
\* validate_documento_peruano says of its two query parameters.
validate_document_format(w) ==
    /\ reg[w].op = "validate_document_format"
    /\ resp' = [op |-> "validate_document_format", status |-> 200,
                tipo_documento |-> reg[w].data.tipo_documento,
                numero_documento |-> reg[w].data.numero_documento,
                es_valido |-> validate_documento_peruano(reg[w].data.tipo_documento,
                                                         reg[w].data.numero_documento)]
    /\ reg' = [reg EXCEPT ![w] = IdleReq]
    /\ UNCHANGED <<now, reviews, users, catalogVars, promoVars, commerceVars, softDeleted>>

\* One request is in flight.  Its number is a head of up to two characters, a
\* run of up to MaxRun digits and a tail: numbers of every length up to 13,
\* with and without separators, letters and each of the RUC prefixes.
InitDocumento ==
    /\ now = 0
    /\ users = << >>
    /\ \E tipo \in {"DNI", "RUC", "CE", "PASAPORTE"},
          head \in {<< >>} \cup [1..2 -> {"0", "1", "2", "5", "7", "9", "-"}],
          k \in 0..MaxRun,
          tail \in {<< >>, <<"-">>, <<" ">>, <<"x">>, <<"4">>, <<"-", "4">>} :
          reg = [w \in Workers |->
                    IF w = "w1"
                    THEN [pc |-> "idle", op |-> "validate_document_format",
                          data |-> [NoData EXCEPT
                                      !.tipo_documento = tipo,
                                      !.numero_documento = head \o [i \in 1..k |-> "3"] \o tail]]
                    ELSE IdleReq]
    /\ EmptyCatalog
    /\ promotions = << >> /\ coupons = << >>
    /\ EmptyCommerce
    /\ softDeleted = {}
    /\ resp = NoResp

NextDocumento == \E w \in Workers : validate_document_format(w)

SpecDocumento == InitDocumento /\ [][NextDocumento]_vars

\* The format as the claim words it, for a number given as its characters.
DocumentoClaimed(tipo, numero) ==
    LET s == SelectSeq(numero, LAMBDA ch : ch # "-" /\ ch # " ")
        AllDigits(n) == Len(s) = n /\ \A i \in 1..n : s[i] \in Digits
    IN  \/ tipo = "DNI" /\ AllDigits(8)
        \/ /\ tipo = "RUC" /\ AllDigits(11)
           /\ <<s[1], s[2]>> \in {<<"1", "0">>, <<"1", "5">>, <<"1", "7">>, <<"2", "0">>}
        \/ tipo = "CE" /\ AllDigits(9)

verify_password(plain_password, hashed_password) ==
    hashed_password = <<"bcrypt", plain_password>>

\* Faulty variant, for sensitivity analysis: login without the esta_activo check.
login_NoActiveCheck(email, password) ==
    LET user == UserByEmail(email) IN
    /\ IF user = None \/ ~verify_password(password, users[user].hashed_password)
       THEN /\ users' = users
            /\ resp' = [op |-> "login", status |-> 401, id |-> user,
                        detail |-> "Email o contraseña incorrectos"]
       ELSE /\ users' = [users EXCEPT ![user].fecha_ultima_actividad = now]
            /\ resp' = [op |-> "login", status |-> 200, id |-> user,
                        access_token |-> Token(user, "access"),
                        refresh_token |-> Token(user, "refresh")]
    /\ UNCHANGED <<now, reviews, commerceVars, reg, catalogVars, promoVars, softDeleted>>

\* POST /auth/login
login(email, password) ==
    LET user == UserByEmail(email) IN
    /\ IF user = None \/ ~verify_password(password, users[user].hashed_password)
       THEN /\ users' = users
            /\ resp' = [op |-> "login", status |-> 401, id |-> user,
                        detail |-> "Email o contraseña incorrectos"]
       ELSE IF ~users[user].esta_activo
       THEN /\ users' = users
            /\ resp' = [op |-> "login", status |-> 401, id |-> user,
                        detail |-> "Cuenta desactivada"]
       ELSE /\ users' = [users EXCEPT ![user].fecha_ultima_actividad = now]
            /\ resp' = [op |-> "login", status |-> 200, id |-> user,
                        access_token |-> Token(user, "access"),
                        refresh_token |-> Token(user, "refresh")]
    /\ UNCHANGED <<now, reviews, commerceVars, reg, catalogVars, promoVars, softDeleted>>

\* POST /auth/refresh.  The handler writes nothing.
refresh_token(token) ==
    LET user_id == verify_token(token, "refresh") IN
    /\ IF user_id = None
       THEN resp' = [op |-> "refresh_token", status |-> 401, id |-> None,
                     detail |-> IF token.decodes /\ token.type # "refresh"
                                THEN "Tipo de token inválido"
                                ELSE "Token inválido o expirado"]
       ELSE IF user_id \notin Ids(users) \/ ~users[user_id].esta_activo
       THEN resp' = [op |-> "refresh_token", status |-> 401, id |-> user_id,
                     detail |-> "Usuario no válido"]
       ELSE resp' = [op |-> "refresh_token", status |-> 200, id |-> user_id,
                     access_token |-> Token(user_id, "access"),
                     refresh_token |-> Token(user_id, "refresh")]
    /\ UNCHANGED <<now, reviews, userVars, commerceVars, catalogVars, promoVars, softDeleted>>

\* ------------------------------------------------ specification: sessions
\* An admin and a customer, each with a password; callers log in, refresh,
\* call two endpoints that depend on get_current_user, and delete users.  The
\* credentials are every token the two users were or could be issued, the
\* tokens of a user that does not exist, and a string that does not decode.
InitAuth ==
    /\ now = 0
    /\ users = << SeedAdmin @@ [hashed_password |-> <<"bcrypt", "pw1">>],
                  SeedCliente @@ [hashed_password |-> <<"bcrypt", "pw2">>] >>
    /\ reg = [w \in Workers |-> IdleReq]
    /\ EmptyCatalog
    /\ promotions = << >> /\ coupons = << >>
    /\ EmptyCommerce
    /\ softDeleted = {}
    /\ resp = NoResp

NextAuth ==
    \/ Tick
    \/ \E email \in {"admin@x", "ana@x", "zoe@x"}, password \in {"pw1", "pw2"} :
          login(email, password)
    \/ \E user_id \in 1..3, type \in {"access", "refresh"} :
          \/ refresh_token(Token(user_id, type))
          \/ calculate_discount(<< >>, NoStr, Token(user_id, type))
          \/ get_orders_stats(Token(user_id, type))
    \/ refresh_token(BadToken)
    \/ \E user_id \in 1..3 : delete_user(user_id)

SpecAuth == InitAuth /\ [][NextAuth]_vars

\* C17: once delete_user(u) has succeeded, every later login with u's email
\* and password, every request of an endpoint that depends on
\* get_current_user carrying an access token of u, and every /auth/refresh
\* with a refresh token of u is answered 401 and carries no token.
C17_DeletedUserLockedOut ==
    [][\A u \in Ids(users) :
          <<"users", u>> \in softDeleted
          => /\ \A password \in {"pw1", "pw2"} :
                   /\ verify_password(password, users[u].hashed_password)
                   /\ login(users[u].email, password)
                   => resp'.status = 401 /\ "access_token" \notin DOMAIN resp'
             /\ \/ calculate_discount(<< >>, NoStr, Token(u, "access"))
                \/ get_orders_stats(Token(u, "access"))
                \/ refresh_token(Token(u, "refresh"))
                => resp'.status = 401 /\ "access_token" \notin DOMAIN resp']_vars

\* A deleted user logged in with the right password and was told that the
\* account is deactivated.
C17_Witness ==
    /\ resp.op = "login" /\ resp.status = 401
    /\ resp.detail = "Cuenta desactivada"
    /\ <<"users", resp.id>> \in softDeleted

\* C20: a refresh token presented as the bearer credential of an endpoint
\* that depends on get_current_user is rejected with 401; an access token
\* presented to /auth/refresh is rejected with 401 and yields no token; a
\* token is accepted only when it decodes, its type is the expected one and
\* its subject is an existing active user.
C20_TokenTypesKeptApart ==
    [][\A token \in {Token(user_id, type) : user_id \in 1..3, type \in {"access", "refresh"}}
                    \cup {BadToken} :
          LET ActiveSubject == /\ token.decodes
                               /\ token.sub \in Ids(users)
                               /\ users[token.sub].esta_activo
          IN  /\ \/ calculate_discount(<< >>, NoStr, token)
                 \/ get_orders_stats(token)
                 => /\ token.type = "refresh" => resp'.status = 401
                    /\ resp'.status # 401 => token.type = "access" /\ ActiveSubject
              /\ refresh_token(token)
                 => /\ token.type = "access"
                       => resp'.status = 401 /\ "access_token" \notin DOMAIN resp'
                    /\ resp'.status # 401 => token.type = "refresh" /\ ActiveSubject]_vars

\* An access token that decodes was presented to /auth/refresh and refused
\* for its type.
C20_Witness ==
    /\ resp.op = "refresh_token" /\ resp.status = 401
    /\ resp.detail = "Tipo de token inválido"

\* ------------------------------------------------- users.py: update_user
\* Faulty variant, for sensitivity analysis: every field of the body is set on the row.
update_user_AnyField(user_id, body) ==
    /\ IF user_id \notin Ids(users)
       THEN /\ users' = users
            /\ resp' = Resp("update_user", 404, user_id)
       ELSE /\ users' = [users EXCEPT ![user_id] = ApplyUpdate(@, body)]
            /\ resp' = RowResp("update_user", user_id, users'[user_id])
    /\ UNCHANGED <<now, reviews, commerceVars, reg, catalogVars, promoVars, softDeleted>>

\* PATCH /users/{user_id}.  The body is parsed as a UserUpdate, which keeps
\* the fields the schema declares and drops every other key; the handler
\* sets what is left on the row.
update_user(user_id, body) ==
    LET declared == {"nombre", "apellido", "telefono", "fecha_nacimiento", "genero",
                     "acepta_marketing"}
        user_data == [f \in DOMAIN body \cap declared |-> body[f]]
    IN
    /\ IF user_id \notin Ids(users)
       THEN /\ users' = users
            /\ resp' = Resp("update_user", 404, user_id)
       ELSE /\ users' = [users EXCEPT ![user_id] = ApplyUpdate(@, user_data)]
            /\ resp' = RowResp("update_user", user_id, users'[user_id])
    /\ UNCHANGED <<now, reviews, commerceVars, reg, catalogVars, promoVars, softDeleted>>

\* --------------------------------------------------- specification: roles
\* Over a database that holds the provisioned admin, callers register through
\* the three handlers and update users, with bodies that carry a rol key.
\* UserCreate and UserRegister declare no rol: parsing the body keeps the
\* declared fields (those of NoData).
InitRoles ==
    /\ now = 0
    /\ users = << SeedAdmin >>
    /\ reg = [w \in Workers |-> IdleReq]
    /\ EmptyCatalog
    /\ promotions = << >> /\ coupons = << >>
    /\ EmptyCommerce
    /\ softDeleted = {}
    /\ resp = NoResp

NextRoles ==
    \/ \E w \in Workers, op \in RegOps, email \in Emails, rol \in {"admin", "staff"} :
          LET body == [nombre |-> "n", email |-> email, tipo_documento |-> "DNI",
                       numero_documento |-> DniA, fecha_nacimiento |-> NoDate,
                       rol |-> rol]
          IN  RegStart(w, op, [f \in DOMAIN NoData |-> body[f]])
    \/ \E w \in Workers : RegLookupDocumento(w)
    \/ \E w \in Workers : RegCommit(w)
    \/ \E user_id \in 1..MaxUsers,
          body \in {[nombre |-> "m"], [nombre |-> "m", rol |-> "admin"], [rol |-> "staff"]} :
          update_user(user_id, body)

SpecRoles == InitRoles /\ [][NextRoles]_vars

\* C21: no request gives a user the role admin or staff: every user that
\* create_user, users.register_user or auth.register adds has rol cliente,
\* whatever the body holds, and update_user leaves the rol of every user as
\* it was.
C21_RolesNeverGranted ==
    [][\A i \in Ids(users') :
          IF i \in Ids(users) THEN users'[i].rol = users[i].rol
          ELSE users'[i].rol = "cliente"]_vars

\* A user was registered and then updated with a body that names a rol.
C21_Witness ==
    /\ resp.op = "update_user" /\ resp.status = 200
    /\ resp.id = 2 /\ resp.row.nombre = "m" /\ resp.row.rol = "cliente"

\* ------------------------------------------- promotions.py: use_coupon
\* POST /promotions/coupons/{coupon_code}/use, up to its query: after
\* get_current_user, the session loads the coupon row; the request keeps what
\* it read.  The handler makes no check of the coupon.
use_coupon_select(w, coupon_code, cred) ==
    LET cid == CouponByCode(coupon_code) IN
    /\ reg[w].pc = "idle"
    /\ users' = UsersAfterAuth(cred)
    /\ IF require_user(cred) # 200
       THEN /\ reg' = reg
            /\ resp' = Resp("use_coupon", 401, None)
       ELSE IF cid = None
       THEN /\ reg' = reg
            /\ resp' = Resp("use_coupon", 404, None)
       ELSE /\ coupons[cid].usos_actuales < MaxUses
            /\ reg' = [reg EXCEPT ![w] = [pc |-> "commit", op |-> "use_coupon",
                                          data |-> [id |-> cid, row |-> coupons[cid]]]]
            /\ resp' = resp
    /\ UNCHANGED <<now, reviews, commerceVars, catalogVars, promoVars, softDeleted>>

\* coupon.usos_actuales += 1; await session.commit(): the value the request
\* read, plus one, is written to the row (UPDATE cupones SET usos_actuales =
\* <value>), whatever the row holds by then.
use_coupon_commit(w) ==
    LET cid == reg[w].data.id
        usos_actuales == reg[w].data.row.usos_actuales + 1
    IN
    /\ reg[w].pc = "commit" /\ reg[w].op = "use_coupon"
    /\ coupons' = [coupons EXCEPT ![cid].usos_actuales = usos_actuales]
    /\ resp' = [op |-> "use_coupon", status |-> 200, id |-> cid,
                usos_actuales |-> usos_actuales]
    /\ reg' = [reg EXCEPT ![w] = IdleReq]
    /\ UNCHANGED <<now, reviews, commerceVars, users, catalogVars, promotions, softDeleted>>

\* ------------------------------------------- specification: using coupons
\* The admin creates and updates coupons of one promotion; a customer's
\* use_coupon requests run on two workers, their steps interleaved.
InitUse ==
    /\ now = 0
    /\ users = << SeedAdmin, SeedCliente >>
    /\ reg = [w \in Workers |-> IdleReq]
    /\ EmptyCatalog
    /\ promotions = << BasePromotion >>
    /\ coupons = << >>
    /\ EmptyCommerce
    /\ softDeleted = {}
    /\ resp = NoResp

NextUse ==
    \/ Tick
    \/ \E limite_usos \in {None, 1} :
          create_coupon([codigo |-> "SAVE", promocion_id |-> 1, fecha_expiracion |-> None,
                         limite_usos |-> limite_usos], Token(1, "access"))
    \/ \E update_data \in {[es_activo |-> FALSE], [limite_usos |-> 1], [fecha_expiracion |-> 0]} :
          update_coupon(1, update_data, Token(1, "access"))
    \/ \E w \in Workers, coupon_code \in {"SAVE", "NOPE"}, cred \in {Token(2, "access"), BadToken} :
          use_coupon_select(w, coupon_code, cred)
    \/ \E w \in Workers : use_coupon_commit(w)

SpecUse == InitUse /\ [][NextUse]_vars

\* C22 (as claimed): in every state that create_coupon, update_coupon and
\* use_coupon lead to, a coupon whose limite_usos is set has usos_actuales <=
\* limite_usos, and use_coupon does not increase the counter of a coupon that
\* validate_coupon would report as exhausted, inactive or expired.
C22_UsesWithinLimit ==
    [][/\ \A i \in Ids(coupons') :
             coupons'[i].limite_usos # None
             => coupons'[i].usos_actuales <= coupons'[i].limite_usos
       /\ \A w \in Workers :
             /\ use_coupon_commit(w)
             /\ LET c == coupons[reg[w].data.id] IN
                \/ ~c.es_activo
                \/ c.fecha_expiracion # None /\ c.fecha_expiracion < now
                \/ Truthy(c.limite_usos) /\ c.usos_actuales >= c.limite_usos
             => coupons'[reg[w].data.id].usos_actuales
                   <= coupons[reg[w].data.id].usos_actuales]_vars

\* C23 (as claimed): every successful use_coupon request raises the stored
\* usos_actuales of its coupon by exactly one, in any interleaving of the
\* select and commit steps of concurrent requests, so that n successful
\* requests raise it by n.
C23_EveryUseCounted ==
    [][\A w \in Workers :
          use_coupon_commit(w) /\ resp'.status = 200
          => coupons'[reg[w].data.id].usos_actuales
                = coupons[reg[w].data.id].usos_actuales + 1]_vars

\* ---------------------------------------------------------- reviews.py
\* POST /reviews/, up to the insert: get_current_user, the lookup of the
\* book (404), and the lookup of a review of this book by this user (400).
create_review_lookup(w, review_data, cred) ==
    LET uid == get_current_user(cred) IN
    /\ reg[w].pc = "idle"
    /\ users' = UsersAfterAuth(cred)
    /\ IF require_user(cred) # 200
       THEN /\ reg' = reg
            /\ resp' = Resp("create_review", 401, None)
       ELSE IF review_data.libro_id \notin Ids(books)
       THEN /\ reg' = reg
            /\ resp' = Resp("create_review", 404, review_data.libro_id)
       ELSE IF \E i \in Ids(reviews) : /\ reviews[i].libro_id = review_data.libro_id
                                       /\ reviews[i].usuario_id = uid
       THEN /\ reg' = reg
            /\ resp' = Resp("create_review", 400, None)
       ELSE /\ reg' = [reg EXCEPT ![w] =
                          [pc |-> "commit", op |-> "create_review",
                           data |-> [libro_id |-> review_data.libro_id,
                                     usuario_id |-> uid,
                                     puntuacion |-> review_data.puntuacion]]]
            /\ resp' = resp
    /\ UNCHANGED <<now, commerceVars, catalogVars, promoVars, reviews, softDeleted>>

\* session.add(review); await session.commit(): the table resenas has no
\* unique index over (libro_id, usuario_id), so the insert succeeds.
create_review_commit(w) ==
    /\ reg[w].pc = "commit" /\ reg[w].op = "create_review"
    /\ Len(reviews) < MaxReviews
    /\ reviews' = Append(reviews, reg[w].data)
    /\ resp' = RowResp("create_review", Len(reviews) + 1, reg[w].data)
    /\ reg' = [reg EXCEPT ![w] = IdleReq]
    /\ UNCHANGED <<now, commerceVars, users, catalogVars, promoVars, softDeleted>>

\* ------------------------------------------------ specification: reviews
\* Two users review one book, and ask to review a book that does not exist;
\* their requests run on two workers, the steps interleaved.
InitReviews ==
    /\ now = 0
    /\ users = << SeedAdmin, SeedCliente >>
    /\ reg = [w \in Workers |-> IdleReq]
    /\ books = << BookRow([titulo |-> "t", isbn |-> "i1"]) >>
    /\ authors = << >> /\ categories = << >> /\ publishers = << >>
    /\ book_authors = {} /\ book_categories = {}
    /\ promotions = << >> /\ coupons = << >>
    /\ EmptyCommerce
    /\ softDeleted = {}
    /\ resp = NoResp

NextReviews ==
    \/ Tick
    \/ \E w \in Workers, libro_id \in 1..2, puntuacion \in {1, 5},
          cred \in {Token(1, "access"), Token(2, "access"), BadToken} :
          create_review_lookup(w, [libro_id |-> libro_id, puntuacion |-> puntuacion], cred)
    \/ \E w \in Workers : create_review_commit(w)

SpecReviews == InitReviews /\ [][NextReviews]_vars

\* C24 (as claimed): no two reviews share the same (libro_id, usuario_id),
\* for any sequence and any interleaving of the lookup and insert steps of
\* create_review requests.
C24_OneReviewPerBook ==
    \A i, j \in Ids(reviews) :
        /\ reviews[i].libro_id = reviews[j].libro_id
        /\ reviews[i].usuario_id = reviews[j].usuario_id
        => i = j

\* ------------------------------------------------------- books.py: stock
\* PATCH /books/{book_id}/stock?new_stock=.  Query(..., ge=0): a negative
\* new_stock is refused with 422 before the handler runs.
update_stock(book_id, new_stock) ==
    /\ IF new_stock < 0
       THEN /\ books' = books
            /\ resp' = Resp("update_stock", 422, book_id)
       ELSE IF book_id \notin Ids(books)
       THEN /\ books' = books
            /\ resp' = Resp("update_stock", 404, book_id)
       ELSE /\ books' = [books EXCEPT ![book_id].stock = new_stock]
            /\ resp' = [op |-> "update_stock", status |-> 200, id |-> book_id,
                        stock_anterior |-> books[book_id].stock,
                        stock_nuevo |-> new_stock]
    /\ UNCHANGED <<now, reviews, commerceVars, userVars, authors, categories, publishers,
                   book_authors, book_categories, promoVars, softDeleted>>

\* The loop of bulk_update_stock over stock_updates, from the table tbl: the
\* table it leaves in the session and the list updated_books.  An entry
\* without book_id or new_stock, with a negative new_stock or with the id of
\* no book is passed over.
RECURSIVE bulk_update_stock(_, _)
bulk_update_stock(tbl, stock_updates) ==
    IF stock_updates = << >> THEN [books |-> tbl, libros_actualizados |-> << >>]
    ELSE LET update == Head(stock_updates)
             applies == /\ update.book_id # None /\ update.new_stock # None
                        /\ update.new_stock >= 0
                        /\ update.book_id \in Ids(tbl)
             rest == bulk_update_stock(
                         IF applies
                         THEN [tbl EXCEPT ![update.book_id].stock = update.new_stock]
                         ELSE tbl,
                         Tail(stock_updates))
         IN  [books |-> rest.books,
              libros_actualizados |->
                  IF applies
                  THEN << [book_id |-> update.book_id,
                           stock_anterior |-> tbl[update.book_id].stock,
                           stock_nuevo |-> update.new_stock] >> \o rest.libros_actualizados
                  ELSE rest.libros_actualizados]

\* PATCH /books/bulk-update-stock with the body stock_updates.  The router
\* serves the request with the first route that matches; when that is
\* update_book, "bulk-update-stock" is not an integer book_id and the answer
\* is 422.  bulk_update_stock commits once, after its loop.
PatchBulkUpdateStock(stock_updates) ==
    /\ IF Dispatch(BooksRouter, "PATCH", <<"bulk-update-stock">>) = "bulk_update_stock"
       THEN /\ books' = bulk_update_stock(books, stock_updates).books
            /\ resp' = [op |-> "bulk_update_stock", status |-> 200, id |-> None,
                        libros_actualizados |->
                            bulk_update_stock(books, stock_updates).libros_actualizados]
       ELSE /\ books' = books
            /\ resp' = Resp(Dispatch(BooksRouter, "PATCH", <<"bulk-update-stock">>), 422, None)
    /\ UNCHANGED <<now, reviews, commerceVars, userVars, authors, categories, publishers,
                   book_authors, book_categories, promoVars, softDeleted>>

\* -------------------------------------------------- specification: stock
\* Books are created and updated with a stock in their bodies, and their
\* stock is set through the two stock routes.
InitStock ==
    /\ now = 0
    /\ users = << >>
    /\ reg = [w \in Workers |-> IdleReq]
    /\ EmptyCatalog
    /\ promotions = << >> /\ coupons = << >>
    /\ EmptyCommerce
    /\ softDeleted = {}
    /\ resp = NoResp

NextStock ==
    \/ \E isbn \in {"i1", "i2"}, stock \in {-1, 0, 3} :
          create_book([titulo |-> "t", isbn |-> isbn, stock |-> stock])
    \/ \E isbn \in {"i1", "i2"} : create_book([titulo |-> "t", isbn |-> isbn])
    \/ \E book_id \in 1..MaxBooks + 1, stock \in {-1, 2} :
          update_book(book_id, [stock |-> stock])
    \/ \E book_id \in 1..MaxBooks + 1, new_stock \in {-1, 0, 1} :
          update_stock(book_id, new_stock)
    \/ \E stock_updates \in SeqsUpTo([book_id : {None, 1, 3}, new_stock : {None, -1, 4}] \cup
                                     {[book_id |-> 1, new_stock |-> 5]}, 2) :
          PatchBulkUpdateStock(stock_updates)

SpecStock == InitStock /\ [][NextStock]_vars

\* C25 (as claimed): in every state that create_book, update_book,
\* update_stock and bulk_update_stock lead to, the stock of every book is at
\* least 0.
C25_StockNeverNegative ==
    \A i \in Ids(books) : books[i].stock >= 0

\* C26 (as claimed): a bulk_update_stock request is answered 200; the stock
\* of a book is the new_stock of the last entry that names it with a
\* new_stock that is present and at least 0, and is unchanged when there is
\* no such entry; and the answer lists one entry per applied update.
C26_BulkUpdateApplies ==
    [][\A stock_updates \in SeqsUpTo([book_id : {None, 1, 3}, new_stock : {None, -1, 4}] \cup
                                     {[book_id |-> 1, new_stock |-> 5]}, 2) :
          PatchBulkUpdateStock(stock_updates)
          => LET Applied(b) == {k \in 1..Len(stock_updates) :
                                   /\ stock_updates[k].book_id = b
                                   /\ stock_updates[k].new_stock # None
                                   /\ stock_updates[k].new_stock >= 0}
                 Last(S) == CHOOSE k \in S : \A j \in S : j <= k
             IN  /\ resp'.status = 200
                 /\ Len(books') = Len(books)
                 /\ \A b \in Ids(books) :
                       books'[b].stock = IF Applied(b) = {} THEN books[b].stock
                                         ELSE stock_updates[Last(Applied(b))].new_stock
                 /\ Len(resp'.libros_actualizados)
                       = Cardinality({k \in 1..Len(stock_updates) :
                                         k \in Applied(stock_updates[k].book_id)
                                         /\ stock_updates[k].book_id \in Ids(books)})]_vars

\* C27 (as claimed): in every state that create_order, update_order and
\* update_order_status lead to, an order whose estado is enviado has
\* fecha_envio set and an order whose estado is entregado has
\* fecha_entrega_real set; and a newly created order has estado
\* pendiente_pago.
C27_OrderDatesFollowEstado ==
    /\ \A i \in Ids(orders) :
          /\ orders[i].estado = "enviado" => orders[i].fecha_envio # None
          /\ orders[i].estado = "entregado" => orders[i].fecha_entrega_real # None
    /\ resp.op = "create_order" /\ resp.status = 200 => resp.row.estado = "pendiente_pago"

====
